---- MODULE Spec2Model ----
(***************************************************************************)
(* Iraa voice assistant: the session loop (app.py), the reminder           *)
(* scheduling engine (scheduler_jobs.py, db.py) and the heartbeat watchdog *)
(* (uptime_monitor.py), modelled as state machines.                        *)
(*                                                                         *)
(* Each subsystem has its own specification over the shared variables:     *)
(*   SpecWatchdog  uptime_monitor.Watchdog, time unit one second           *)
(*   SpecSession   app.main loop and the stall callback                    *)
(*   SpecSched     scheduler_jobs._schedule_event_reminders                *)
(*   SpecDayPlan   scheduler_jobs._rebuild_day_plan and db.schedules       *)
(***************************************************************************)
EXTENDS Integers, Sequences, FiniteSets, TLC

None == "None"

Max(a, b) == IF a >= b THEN a ELSE b

(***************************************************************************)
(* State                                                                   *)
(***************************************************************************)
\* Watchdog (uptime_monitor.py:25-50)
VARIABLES
  mono,           \* time.monotonic(), in seconds
  wd_timeout,     \* Watchdog.timeout
  wd_interval,    \* Watchdog._interval
  wd_last,        \* Watchdog._last
  wd_last_alert,  \* Watchdog._last_alert
  wd_on_stall,    \* TRUE iff an on_stall callback was given
  wd_stop,        \* Watchdog._stop is set
  wd_wake,        \* monotonic time at which the monitor's wait(interval) returns
  stallCalls,     \* history: number of on_stall invocations
  lastStallAt,    \* history: monotonic time of the latest on_stall invocation
  staleSeen,      \* history: a monitor tick has observed age > timeout since the last beat
  suppressed,     \* history: number of stale ticks skipped by the alert window
  staleTicks,     \* history: number of ticks that observed age > timeout
  wd_monitor,     \* the monitor thread is alive
  stallRaised     \* history: the latest on_stall invocation raised an exception

wdVars == <<mono, wd_timeout, wd_interval, wd_last, wd_last_alert, wd_on_stall,
            wd_stop, wd_wake, stallCalls, lastStallAt, staleSeen, suppressed,
            staleTicks, wd_monitor, stallRaised>>

\* Session loop (app.py:198-256)
VARIABLES
  pc,                   \* position of the session thread inside main()
  conversation_active,  \* main.conversation_active
  first_wakeup,         \* main.first_wakeup
  silent_turns,         \* main.silent_turns
  sleep_requested,      \* app._SLEEP_REQUESTED
  playback,             \* agent._SPOTIFY_PLAYBACK_ACTIVE
  heard,                \* the transcript returned by the latest listen_once
  intent,               \* the intent detected for the current turn
  hstep,                \* prompts already issued by the running multi-step handler
  spoken,               \* history: what the latest session step said ("" if nothing)
  beats,                \* history: beat() calls in the current loop iteration
  emptyRun,             \* history: consecutive empty turns of the current Active period
  apologies,            \* history: apologies spoken for the current turn
  stalledInHandler,     \* history: the stall callback ran while a handler was in progress
  promptsAfterStall,    \* history: prompts issued by that handler after the callback
  cause,                \* history: the kind of step that last changed conversation_active
  sleep_seen,           \* history: the current iteration began in Idle with the sleep flag set
  stall_pending         \* the monitor thread has seen age > timeout and is about to call on_stall

sessVars == <<pc, conversation_active, first_wakeup, silent_turns, sleep_requested,
              playback, heard, intent, hstep, spoken, beats, emptyRun, apologies,
              stalledInHandler, promptsAfterStall, cause, sleep_seen, stall_pending>>

\* Reminder scheduling engine (scheduler_jobs.py:19-22, db.py schedules table)
VARIABLES
  now,             \* wall-clock time, in units of MinutesPerUnit minutes
  cal,             \* the external calendar: event id -> [summary, start]
  schedules,       \* rows of the schedules table
  next_id,         \* next AUTO_INCREMENT id of the schedules table
  scheduled_keys,  \* scheduler_jobs._scheduled_keys: key -> run_at timestamp
  jobs,            \* one-shot jobs pending on the job runner
  sched,           \* the job runner of start_recurring: None until started
  edits,           \* number of changes made to the calendar and the reminders
  ran_now,         \* the periodic jobs that have run at the current instant
  day_plan,        \* scheduler_jobs._day_plan
  day_plan_date,   \* scheduler_jobs._day_plan_date
  returned,        \* the list returned by the latest _rebuild_day_plan / _ensure_day_plan
  regCount,        \* history: add_job registrations per key since the items last changed
  insertedAt,      \* history: key -> time at which the entry was put into _scheduled_keys
  lastPass,        \* history: what the latest scheduling pass did
  passes,          \* history: parity of the number of scheduling passes run
  lastUpsert,      \* history: outcome of the latest upsert_schedule_from_calendar
  lastPlan,        \* history: what the latest _rebuild_day_plan / _ensure_day_plan did
  sched_gen,       \* app._scheduler_instance: how many job runners have been constructed
  deaths,          \* how many times a job runner has stopped running on its own
  next_said,       \* history: what handle_schedule_next last spoke
  brief_said,      \* history: what _morning_brief last spoke
  lock,            \* scheduler_jobs._scheduled_lock: the thread holding it, or None
  tpc,             \* where each thread stands inside the scheduler_jobs functions
  tlocal,          \* each thread's local variables inside those functions
  accesses,        \* history: the accesses made to the shared module globals
  audio_lock,      \* speech_io._audio_lock: the thread holding it, or None
  audio,           \* what each thread is doing with the microphone and the speaker
  environ_leads,   \* os.environ["CALENDAR_REMINDER_LEADS"]: its numbers, << >> when unset
  leads,           \* the `leads` captured by the jobs of start_recurring
  leads_said       \* history: what handle_calrem_set_leads last spoke

\* the reminder leads: the environment's, the job runner's, and the answer
leadVars == <<environ_leads, leads, leads_said>>

\* the job runner handle of app.py beside the runner's state `sched`
runVars == <<sched_gen, deaths, leadVars>>

\* what the assistant answered
askVars == <<next_said, brief_said>>

\* the lock of speech_io and who is using the audio devices
audioVars == <<audio_lock, audio>>

\* the lock of scheduler_jobs and the threads that run its functions
lockVars == <<lock, tpc, tlocal, accesses, audioVars>>

schedVars == <<now, cal, schedules, next_id, scheduled_keys, jobs, sched, edits,
               ran_now,
               day_plan, day_plan_date, returned, regCount, insertedAt,
               lastPass, passes, lastUpsert, lastPlan, runVars, askVars, lockVars>>

vars == <<wdVars, sessVars, schedVars>>

(***************************************************************************)
(* Watchdog (uptime_monitor.py)                                            *)
(***************************************************************************)
\* bounds of the watchdog model
MaxMono == 34
MaxBoot == 1
TimeoutArgs == {4, 11}
IntervalArgs == {2, 6}

\* Watchdog.__init__ clamps (uptime_monitor.py:35-36)
MinTimeout == 10
MinInterval == 5

\* the time since the latest alert, in place of the time since the latest beat
age_since_alert == mono - wd_last_alert

\* Watchdog.age (uptime_monitor.py:56-58)
age == mono - wd_last

\* uptime_monitor.py:78  `now - self._last_alert < self.timeout * 0.5` is the
\* skip condition; the alert window is open when it is false.
AlertWindowOpenNoLimit(t, last_alert, timeout) == TRUE

AlertWindowOpen(t, last_alert, timeout) == ~(2 * (t - last_alert) < timeout)

\* Watchdog.__init__ (uptime_monitor.py:25-50), constructed at monotonic time t0
WatchdogInit(t0, timeout, heartbeat_interval, has_cb) ==
  /\ mono = t0
  /\ wd_timeout = Max(MinTimeout, timeout)
  /\ wd_interval = Max(MinInterval, heartbeat_interval)
  /\ wd_last = t0
  /\ wd_last_alert = 0
  /\ wd_on_stall = has_cb
  /\ wd_stop = FALSE
  /\ wd_wake = t0 + Max(MinInterval, heartbeat_interval)
  /\ stallCalls = 0
  /\ lastStallAt = 0
  /\ staleSeen = FALSE
  /\ suppressed = 0
  /\ staleTicks = 0
  /\ wd_monitor = TRUE
  /\ stallRaised = FALSE

\* the passage of one second
ClockTick ==
  /\ mono < MaxMono
  /\ mono' = mono + 1
  /\ UNCHANGED <<wd_timeout, wd_interval, wd_last, wd_last_alert, wd_on_stall,
                 wd_stop, wd_wake, stallCalls, lastStallAt, staleSeen,
                 suppressed, staleTicks, wd_monitor, stallRaised>>
  /\ UNCHANGED <<sessVars, schedVars>>

\* Watchdog.beat (uptime_monitor.py:52-54)
beat ==
  /\ wd_last' = mono
  /\ staleSeen' = FALSE
  /\ UNCHANGED <<mono, wd_timeout, wd_interval, wd_last_alert, wd_on_stall,
                 wd_stop, wd_wake, stallCalls, lastStallAt, suppressed,
                 staleTicks, wd_monitor, stallRaised>>
  /\ UNCHANGED <<sessVars, schedVars>>

\* Watchdog.stop (uptime_monitor.py:60-61)
stop ==
  /\ ~wd_stop
  /\ wd_stop' = TRUE
  /\ UNCHANGED <<mono, wd_timeout, wd_interval, wd_last, wd_last_alert,
                 wd_on_stall, wd_wake, stallCalls, lastStallAt, staleSeen,
                 suppressed, staleTicks, wd_monitor, stallRaised>>
  /\ UNCHANGED <<sessVars, schedVars>>

\* an exception of on_stall left to end the monitor thread
StallCallReturnsUncaught(raised) == ~raised

\* uptime_monitor.py:83-86  the try / except Exception around the callback:
\* the monitor thread goes on whether or not on_stall raised
StallCallReturns(raised) == TRUE

\* One iteration of Watchdog._monitor_loop (uptime_monitor.py:72-88): the
\* wait(interval) has timed out without the stop event being set.
monitor_loop ==
  /\ wd_monitor
  /\ ~wd_stop
  /\ mono >= wd_wake
  /\ wd_wake' = mono + wd_interval
  /\ IF age <= wd_timeout
       THEN UNCHANGED <<wd_last_alert, stallCalls, lastStallAt, staleSeen,
                        suppressed, staleTicks, wd_monitor, stallRaised>>
       ELSE /\ staleSeen' = TRUE
            /\ staleTicks' = staleTicks + 1
            /\ IF ~AlertWindowOpen(mono, wd_last_alert, wd_timeout)
                 THEN /\ suppressed' = suppressed + 1
                      /\ UNCHANGED <<wd_last_alert, stallCalls, lastStallAt,
                                     wd_monitor, stallRaised>>
                 ELSE /\ wd_last_alert' = mono
                      /\ suppressed' = suppressed
                      /\ IF wd_on_stall
                           THEN /\ stallCalls' = stallCalls + 1
                                /\ lastStallAt' = mono
                                /\ \E raised \in BOOLEAN :
                                     /\ stallRaised' = raised
                                     /\ wd_monitor' = StallCallReturns(raised)
                           ELSE UNCHANGED <<stallCalls, lastStallAt, wd_monitor,
                                           stallRaised>>
  /\ UNCHANGED <<mono, wd_timeout, wd_interval, wd_last, wd_on_stall, wd_stop>>
  /\ UNCHANGED <<sessVars, schedVars>>

(***************************************************************************)
(* Session loop (app.py main)                                              *)
(***************************************************************************)
\* bounds of the session model
MaxPhrases == 2
NumPrompts == 2

\* A transcript is identified with the set of recognised phrases it contains
\* as substrings; the empty set is the empty transcript.
Phrases == {"exit", "thanks", "ira", "pause music", "next song", "play music",
            "email to", "joke", "authorize google"}

Transcripts == {t \in SUBSET Phrases : Cardinality(t) <= MaxPhrases}

\* app.py:89-101
WAKE_WORDS == {"ira"}

\* app.py:273-285, the phrases of sleep_triggers
SleepPhrases == {"thanks"}

\* app.py:215
music_control_intents == {"spotify_pause", "spotify_next", "spotify_toggle"}

\* The silent-turn threshold of app.py:374
SilentLimit == 3

\* a wake test that wants the transcript to be a wake word and nothing else
heard_wake_word_exact(t) == t \in {{w} : w \in WAKE_WORDS}

\* app.heard_wake_word (app.py:160-165)
heard_wake_word(t) == t # {} /\ t \cap WAKE_WORDS # {}

\* agent.detect_intent (agent.py:190-418), restricted to Phrases; the order is
\* the order of the tests in the source.
detect_intent(t) ==
  IF "email to" \in t THEN "email"
  ELSE IF "joke" \in t THEN "joke"
  ELSE IF "pause music" \in t THEN "spotify_pause"
  ELSE IF "next song" \in t THEN "spotify_next"
  ELSE IF "play music" \in t THEN "spotify_play"
  ELSE IF "thanks" \in t THEN "smalltalk"
  ELSE "unknown"

\* main.check_sleep_mode (app.py:258-306): which branch the text takes
check_sleep_mode(t) ==
  IF t = {} THEN "none"
  ELSE IF "exit" \in t THEN "exit"
  ELSE IF t \cap SleepPhrases # {} THEN "sleep"
  ELSE "none"

\* speech_io.speak (speech_io.py:314-332): nothing is said while sleep is requested
Speak(msg) == IF sleep_requested THEN "" ELSE msg

\* main.prompt_if_music_idle (app.py:247-250)
prompt_if_music_idle(msg) == IF ~playback THEN Speak(msg) ELSE ""

\* main.enter_music_sleep_if_needed (app.py:252-256): the new conversation_active
enter_music_sleep_if_needed(active) == IF playback THEN FALSE ELSE active

\* the handlers of app.py:441-542 by shape
HandlerKind(i) ==
  IF i = "email" THEN "multi"
  ELSE IF i \in {"spotify_pause", "spotify_next", "spotify_play"} THEN "spotify"
  ELSE "simple"

\* the intents after whose handler the loop calls enter_music_sleep_if_needed
\* (app.py:519-538)
MusicSleepIntents == {"spotify_resume", "spotify_next", "spotify_toggle", "spotify_play"}

\* main() up to the loop (app.py:211-213, 45)
SessionInit ==
  /\ pc = "top"
  /\ conversation_active = FALSE
  /\ first_wakeup = TRUE
  /\ silent_turns = 0
  /\ sleep_requested = FALSE
  /\ playback = FALSE
  /\ heard = {}
  /\ intent = None
  /\ hstep = 0
  /\ spoken = ""
  /\ beats = 0
  /\ emptyRun = 0
  /\ apologies = 0
  /\ stalledInHandler = FALSE
  /\ promptsAfterStall = 0
  /\ cause = "none"
  /\ sleep_seen = FALSE
  /\ stall_pending = FALSE

\* the kind of change a session-thread step at the current position makes to
\* conversation_active (a label for the history variable `cause`)
StepCause ==
  IF pc = "skip" THEN "sleep_skip"
  ELSE IF pc \in {"idle_sleepcheck", "active_sleepcheck"} THEN "sleep_phrase"
  ELSE IF pc = "idle_music" THEN "music_control"
  ELSE IF pc \in {"idle_music_prompt", "followup"} THEN "music_sleep"
  ELSE IF pc = "idle_wake" THEN "wake"
  ELSE IF pc = "active_turn" THEN "silence"
  ELSE "other"

\* every session-thread step leaves the other subsystems alone
SessionFrame ==
  /\ cause' = IF conversation_active' # conversation_active THEN StepCause ELSE cause
  /\ sleep_seen' = IF pc = "reset" THEN (~conversation_active /\ sleep_requested)
                   ELSE sleep_seen
  /\ UNCHANGED <<stall_pending, wdVars, schedVars>>

\* a loop top that does not beat
LoopTopNoBeat ==
  /\ pc = "top"
  /\ pc' = "reset"
  /\ beats' = 0
  /\ spoken' = ""
  /\ apologies' = 0
  /\ UNCHANGED <<conversation_active, first_wakeup, silent_turns, sleep_requested,
                 playback, heard, intent, hstep, emptyRun, stalledInHandler,
                 promptsAfterStall>>
  /\ SessionFrame

\* app.py:309-310  main_watchdog.beat(); time.sleep(0.05)
LoopTop ==
  /\ pc = "top"
  /\ pc' = "reset"
  /\ beats' = 1
  /\ spoken' = ""
  /\ apologies' = 0
  /\ UNCHANGED <<conversation_active, first_wakeup, silent_turns, sleep_requested,
                 playback, heard, intent, hstep, emptyRun, stalledInHandler,
                 promptsAfterStall>>
  /\ SessionFrame

\* app.py:313-315  if not conversation_active: silent_turns = 0; set_sleep_requested(False)
LoopReset ==
  /\ pc = "reset"
  /\ pc' = "skip"
  /\ IF ~conversation_active
       THEN silent_turns' = 0 /\ sleep_requested' = FALSE
       ELSE UNCHANGED <<silent_turns, sleep_requested>>
  /\ spoken' = ""
  /\ UNCHANGED <<conversation_active, first_wakeup, playback, heard, intent, hstep,
                 beats, emptyRun, apologies, stalledInHandler, promptsAfterStall>>
  /\ SessionFrame

\* app.py:318-320  if is_sleep_requested() and conversation_active: ...; continue
LoopSleepSkip ==
  /\ pc = "skip"
  /\ IF sleep_requested /\ conversation_active
       THEN conversation_active' = FALSE /\ pc' = "top"
       ELSE conversation_active' = conversation_active /\ pc' = "branch"
  /\ spoken' = ""
  /\ UNCHANGED <<first_wakeup, silent_turns, sleep_requested, playback, heard,
                 intent, hstep, beats, emptyRun, apologies, stalledInHandler,
                 promptsAfterStall>>
  /\ SessionFrame

\* app.py:323 / 367  if not conversation_active: ... else: ...
LoopBranch ==
  /\ pc = "branch"
  /\ pc' = IF ~conversation_active THEN "idle_listen" ELSE "active_listen"
  /\ spoken' = ""
  /\ UNCHANGED <<conversation_active, first_wakeup, silent_turns, sleep_requested,
                 playback, heard, intent, hstep, beats, emptyRun, apologies,
                 stalledInHandler, promptsAfterStall>>
  /\ SessionFrame

\* app.py:324-326  wake = listen_once(4); main_watchdog.beat()
IdleListen ==
  /\ pc = "idle_listen"
  /\ \E t \in Transcripts : heard' = t
  /\ pc' = "idle_sleepcheck"
  /\ beats' = beats + 1
  /\ emptyRun' = 0
  /\ spoken' = ""
  /\ UNCHANGED <<conversation_active, first_wakeup, silent_turns, sleep_requested,
                 playback, intent, hstep, apologies, stalledInHandler,
                 promptsAfterStall>>
  /\ SessionFrame

\* check_sleep_mode up to its speak (app.py:258-294 / 300-301), called from
\* app.py:329 (ret = "idle_music") or app.py:385 (ret = "detect")
SleepCheck(at, ret) ==
  /\ pc = at
  /\ LET m == check_sleep_mode(heard) IN
       /\ pc' = IF m = "exit" THEN "exit_speak"
                ELSE IF m = "sleep" THEN "sleep_speak" ELSE ret
       /\ IF m = "sleep"
            THEN sleep_requested' = TRUE /\ conversation_active' = FALSE
            ELSE UNCHANGED <<sleep_requested, conversation_active>>
  /\ spoken' = ""
  /\ UNCHANGED <<first_wakeup, silent_turns, playback, heard, intent, hstep, beats,
                 emptyRun, apologies, stalledInHandler, promptsAfterStall>>
  /\ SessionFrame

\* app.py:329
IdleSleepCheck == SleepCheck("idle_sleepcheck", "idle_music")

\* app.py:385
ActiveSleepCheck == SleepCheck("active_sleepcheck", "detect")

\* app.py:269-271  speak(...); sys.exit(0)
ExitSpeak ==
  /\ pc = "exit_speak"
  /\ spoken' = Speak("power_down")
  /\ pc' = "exited"
  /\ UNCHANGED <<conversation_active, first_wakeup, silent_turns, sleep_requested,
                 playback, heard, intent, hstep, beats, emptyRun, apologies,
                 stalledInHandler, promptsAfterStall>>
  /\ SessionFrame

\* app.py:295-297 / 302-304  speak(response); return True, then `continue`
SleepSpeak ==
  /\ pc = "sleep_speak"
  /\ spoken' = Speak("sleep_ack")
  /\ pc' = "top"
  /\ UNCHANGED <<conversation_active, first_wakeup, silent_turns, sleep_requested,
                 playback, heard, intent, hstep, beats, emptyRun, apologies,
                 stalledInHandler, promptsAfterStall>>
  /\ SessionFrame

\* app.py:332-336  direct dispatch of a music control intent while playback is active
IdleMusic ==
  /\ pc = "idle_music"
  /\ IF playback /\ detect_intent(heard) \in music_control_intents
       THEN /\ conversation_active' = TRUE
            /\ sleep_requested' = FALSE
            /\ intent' = detect_intent(heard)
            /\ pc' = "idle_music_action"
       ELSE /\ UNCHANGED <<conversation_active, sleep_requested, intent>>
            /\ pc' = "idle_wake"
  /\ spoken' = ""
  /\ UNCHANGED <<first_wakeup, silent_turns, playback, heard, hstep, beats, emptyRun,
                 apologies, stalledInHandler, promptsAfterStall>>
  /\ SessionFrame

\* The effect of a Spotify handler on _SPOTIFY_PLAYBACK_ACTIVE
\* (agent.py:1415-1423 pause, 1462-1509 next, 1288-1385 play): the new values
\* the flag can take.
SpotifyOutcomes(i) ==
  IF i = "spotify_pause" THEN {FALSE, playback} ELSE BOOLEAN

\* app.py:337-347  the handler call of the direct dispatch
IdleMusicAction ==
  /\ pc = "idle_music_action"
  /\ \E p \in SpotifyOutcomes(intent) : playback' = p
  /\ spoken' = Speak("answer")
  /\ pc' = "idle_music_prompt"
  /\ UNCHANGED <<conversation_active, first_wakeup, silent_turns, sleep_requested,
                 heard, intent, hstep, beats, emptyRun, apologies, stalledInHandler,
                 promptsAfterStall>>
  /\ SessionFrame

\* app.py:339 / 342-343 / 346-348  prompt_if_music_idle; enter_music_sleep_if_needed; continue
IdleMusicPrompt ==
  /\ pc = "idle_music_prompt"
  /\ spoken' = prompt_if_music_idle("followup")
  /\ conversation_active' = IF intent \in {"spotify_next", "spotify_toggle"}
                              THEN enter_music_sleep_if_needed(conversation_active)
                              ELSE conversation_active
  /\ pc' = "top"
  /\ UNCHANGED <<first_wakeup, silent_turns, sleep_requested, playback, heard, intent,
                 hstep, beats, emptyRun, apologies, stalledInHandler,
                 promptsAfterStall>>
  /\ SessionFrame

\* app.py:350-354  wake-word test and the Idle -> Active transition
IdleWake ==
  /\ pc = "idle_wake"
  /\ IF ~heard_wake_word(heard)
       THEN /\ pc' = "top"
            /\ UNCHANGED <<conversation_active, sleep_requested>>
       ELSE /\ conversation_active' = TRUE
            /\ sleep_requested' = FALSE
            /\ pc' = "greet"
  /\ spoken' = ""
  /\ UNCHANGED <<first_wakeup, silent_turns, playback, heard, intent, hstep, beats,
                 emptyRun, apologies, stalledInHandler, promptsAfterStall>>
  /\ SessionFrame

\* app.py:357-366  first-time or welcome-back greeting
Greet ==
  /\ pc = "greet"
  /\ spoken' = IF sleep_requested THEN ""
               ELSE Speak(IF first_wakeup THEN "greeting" ELSE "welcome_back")
  /\ first_wakeup' = FALSE
  /\ pc' = "top"
  /\ UNCHANGED <<conversation_active, silent_turns, sleep_requested, playback, heard,
                 intent, hstep, beats, emptyRun, apologies, stalledInHandler,
                 promptsAfterStall>>
  /\ SessionFrame

\* app.py:369  utter = listen_once(seconds=6)
ActiveListen ==
  /\ pc = "active_listen"
  /\ \E t \in Transcripts : heard' = t
  /\ pc' = "active_turn"
  /\ spoken' = ""
  /\ UNCHANGED <<conversation_active, first_wakeup, silent_turns, sleep_requested,
                 playback, intent, hstep, beats, emptyRun, apologies,
                 stalledInHandler, promptsAfterStall>>
  /\ SessionFrame

\* app.py:374  if silent_turns >= 3
SilenceExpiredEarly(n) == n >= 1

SilenceExpired(n) == n >= SilentLimit

\* app.py:370-379  beat; silent-turn counting and the silence threshold
ActiveTurn ==
  /\ pc = "active_turn"
  /\ beats' = beats + 1
  /\ IF heard = {}
       THEN /\ emptyRun' = emptyRun + 1
            /\ IF SilenceExpired(silent_turns + 1)
                 THEN /\ silent_turns' = 0
                      /\ conversation_active' = FALSE
                      /\ pc' = "idle_notice"
                 ELSE /\ silent_turns' = silent_turns + 1
                      /\ conversation_active' = conversation_active
                      /\ pc' = "top"
       ELSE /\ emptyRun' = 0
            /\ silent_turns' = 0
            /\ conversation_active' = conversation_active
            /\ pc' = "active_sleepcheck"
  /\ spoken' = ""
  /\ UNCHANGED <<first_wakeup, sleep_requested, playback, heard, intent, hstep,
                 apologies, stalledInHandler, promptsAfterStall>>
  /\ SessionFrame

\* app.py:377-378  prompt_if_music_idle("I'm not hearing anything ..."); continue
IdleNotice ==
  /\ pc = "idle_notice"
  /\ spoken' = prompt_if_music_idle("idle_notice")
  /\ pc' = "top"
  /\ UNCHANGED <<conversation_active, first_wakeup, silent_turns, sleep_requested,
                 playback, heard, intent, hstep, beats, emptyRun, apologies,
                 stalledInHandler, promptsAfterStall>>
  /\ SessionFrame

\* app.py:394-403  intent detection, the playback gate and the routing of the turn
Detect ==
  /\ pc = "detect"
  /\ intent' = detect_intent(heard)
  /\ hstep' = 0
  /\ pc' = IF playback /\ detect_intent(heard) \notin music_control_intents THEN "top"
           ELSE IF "authorize google" \in heard THEN "special"
           ELSE "handler"
  /\ spoken' = ""
  /\ stalledInHandler' = FALSE
  /\ promptsAfterStall' = 0
  /\ UNCHANGED <<conversation_active, first_wakeup, silent_turns, sleep_requested,
                 playback, heard, beats, emptyRun, apologies>>
  /\ SessionFrame

\* app.py:403-406  auth_google_flow_cli() runs outside any try block: either it
\* returns and the follow-up prompt is spoken, or its exception leaves main().
Special ==
  /\ pc = "special"
  /\ \E raises \in BOOLEAN :
       IF raises
         THEN pc' = "crashed" /\ spoken' = ""
         ELSE pc' = "top" /\ spoken' = prompt_if_music_idle("followup")
  /\ UNCHANGED <<conversation_active, first_wakeup, silent_turns, sleep_requested,
                 playback, heard, intent, hstep, beats, emptyRun, apologies,
                 stalledInHandler, promptsAfterStall>>
  /\ SessionFrame

\* A handler is in progress and has prompts left to issue
HandlerInProgress ==
  pc = "handler" /\ HandlerKind(intent) = "multi" /\ hstep < NumPrompts

\* app.py:443-466, 539-542  single-response handlers inside the try block: the
\* handler speaks its answer, or raises
SimpleHandler ==
  /\ pc = "handler"
  /\ HandlerKind(intent) = "simple"
  /\ \E raises \in BOOLEAN :
       IF raises
         THEN pc' = "apology" /\ spoken' = ""
         ELSE pc' = "followup" /\ spoken' = Speak("answer")
  /\ UNCHANGED <<conversation_active, first_wakeup, silent_turns, sleep_requested,
                 playback, heard, intent, hstep, beats, emptyRun, apologies,
                 stalledInHandler, promptsAfterStall>>
  /\ SessionFrame

\* app.py:516-538  Spotify handlers inside the try block; they absorb their own
\* exceptions (agent.py:1379-1385, 1408-1412, 1496-1509)
SpotifyHandler ==
  /\ pc = "handler"
  /\ HandlerKind(intent) = "spotify"
  /\ \E p \in SpotifyOutcomes(intent) : playback' = p
  /\ spoken' = Speak("answer")
  /\ pc' = "followup"
  /\ UNCHANGED <<conversation_active, first_wakeup, silent_turns, sleep_requested,
                 heard, intent, hstep, beats, emptyRun, apologies, stalledInHandler,
                 promptsAfterStall>>
  /\ SessionFrame

\* agent._check_sleep (agent.py:106-109): TRUE iff it raises InterruptedError
check_sleep == sleep_requested

\* app.py:468-470 with agent.action_email (agent.py:1573-1660): one prompt of a
\* multi-step dialogue: _check_sleep(), speak(prompt), listen(); an
\* InterruptedError makes the handler return; any other exception leaves it.
MultiHandlerStep ==
  /\ pc = "handler"
  /\ HandlerKind(intent) = "multi"
  /\ hstep < NumPrompts
  /\ \E raises \in BOOLEAN :
       IF raises
         THEN /\ pc' = "apology"
              /\ spoken' = ""
              /\ UNCHANGED <<hstep, promptsAfterStall>>
         ELSE IF check_sleep
           THEN /\ pc' = "followup"
                /\ spoken' = ""
                /\ UNCHANGED <<hstep, promptsAfterStall>>
           ELSE /\ pc' = "handler"
                /\ spoken' = Speak("prompt")
                /\ hstep' = hstep + 1
                /\ promptsAfterStall' = IF stalledInHandler THEN 1 ELSE promptsAfterStall
  /\ UNCHANGED <<conversation_active, first_wakeup, silent_turns, sleep_requested,
                 playback, heard, intent, beats, emptyRun, apologies,
                 stalledInHandler>>
  /\ SessionFrame

\* the multi-step handler returns after its last prompt
MultiHandlerDone ==
  /\ pc = "handler"
  /\ HandlerKind(intent) = "multi"
  /\ hstep = NumPrompts
  /\ pc' = "followup"
  /\ spoken' = Speak("answer")
  /\ UNCHANGED <<conversation_active, first_wakeup, silent_turns, sleep_requested,
                 playback, heard, intent, hstep, beats, emptyRun, apologies,
                 stalledInHandler, promptsAfterStall>>
  /\ SessionFrame

\* the prompt_if_music_idle after each handler and, for the intents of
\* app.py:519-538, enter_music_sleep_if_needed(); continue
Followup ==
  /\ pc = "followup"
  /\ spoken' = prompt_if_music_idle("followup")
  /\ conversation_active' = IF intent \in MusicSleepIntents
                              THEN enter_music_sleep_if_needed(conversation_active)
                              ELSE conversation_active
  /\ pc' = "top"
  /\ UNCHANGED <<first_wakeup, silent_turns, sleep_requested, playback, heard, intent,
                 hstep, beats, emptyRun, apologies, stalledInHandler,
                 promptsAfterStall>>
  /\ SessionFrame

\* app.py:544-548  except Exception: speak("I encountered an error. ...")
Apology ==
  /\ pc = "apology"
  /\ spoken' = Speak("apology")
  /\ apologies' = apologies + 1
  /\ pc' = "top"
  /\ UNCHANGED <<conversation_active, first_wakeup, silent_turns, sleep_requested,
                 playback, heard, intent, hstep, beats, emptyRun, stalledInHandler,
                 promptsAfterStall>>
  /\ SessionFrame

\* the positions at which the session thread is inside a blocking call
\* (listen_once, a handler, speak), so that no beat() happens until it returns
BlockingPcs ==
  {"idle_listen", "active_listen", "handler", "special", "idle_music_action",
   "idle_music_prompt", "greet", "sleep_speak", "exit_speak", "idle_notice",
   "followup", "apology"}

\* Watchdog._monitor_loop up to the callback (uptime_monitor.py:73-83): the
\* blocking call has lasted longer than the timeout and a monitor tick has
\* passed both tests; the callback itself runs when the monitor thread is
\* next scheduled.
stall_detected ==
  /\ pc \in BlockingPcs
  /\ ~stall_pending
  /\ stall_pending' = TRUE
  /\ UNCHANGED <<pc, conversation_active, first_wakeup, silent_turns,
                 sleep_requested, playback, heard, intent, hstep, spoken, beats,
                 emptyRun, apologies, stalledInHandler, promptsAfterStall, cause,
                 sleep_seen>>
  /\ UNCHANGED <<wdVars, schedVars>>

\* main._loop_stalled (app.py:223-227), run by the watchdog's monitor thread
\* (uptime_monitor.py:84)
loop_stalled ==
  /\ pc \notin {"exited", "crashed"}
  /\ stall_pending
  /\ stall_pending' = FALSE
  /\ conversation_active' = FALSE
  /\ sleep_requested' = FALSE
  /\ stalledInHandler' = (stalledInHandler \/ HandlerInProgress)
  /\ cause' = IF conversation_active THEN "stall" ELSE cause
  /\ UNCHANGED <<pc, first_wakeup, silent_turns, playback, heard, intent, hstep,
                 spoken, beats, emptyRun, apologies, promptsAfterStall, sleep_seen>>
  /\ UNCHANGED <<wdVars, schedVars>>

\* app._stop (app.py:555-559), the SIGINT / SIGTERM handler
stop_signal ==
  /\ pc \notin {"exited", "crashed"}
  /\ pc' = "exited"
  /\ spoken' = Speak("shut_down")
  /\ UNCHANGED <<conversation_active, first_wakeup, silent_turns, sleep_requested,
                 playback, heard, intent, hstep, beats, emptyRun, apologies,
                 stalledInHandler, promptsAfterStall>>
  /\ SessionFrame

(***************************************************************************)
(* Reminder scheduling engine (scheduler_jobs.py, db.py)                    *)
(***************************************************************************)
\* bounds of the scheduling model
MaxRows == 2

\* one unit of `now` is MinutesPerUnit minutes
MinutesPerUnit == 5
UnitsPerHour == 60 \div MinutesPerUnit
UnitsPerDay == 24 * UnitsPerHour

\* scheduler_jobs.py:25  max_age_hours
MAX_AGE_HOURS == 48
\* scheduler_jobs.py:360  CALENDAR_REMINDER_WINDOW_HOURS default
WINDOW_HOURS == 12
\* scheduler_jobs.py:409  CALENDAR_REMINDER_LEADS default "30,5" (_env_leads)
env_leads == <<30, 5>>

\* scheduler_jobs._env_leads (scheduler_jobs.py:408-419) on the numbers of the
\* environment variable: the default when it is unset or holds no number
EnvLeads(raw) == IF raw = << >> THEN env_leads ELSE raw

\* app.py:88, scheduler_jobs.py:437  DEFAULT_USER_ID
USER_ID == "me"
Users == {"me", "guest"}

\* timedelta(minutes=lead), timedelta(hours=h) in units of `now`
Minutes(m) == m \div MinutesPerUnit
Hours(h) == h * UnitsPerHour

\* the local calendar date of a time (strftime("%Y-%m-%d"), DATE(due_dt))
DateOf(t) == t \div UnitsPerDay

NoPass == [ran |-> FALSE, pruned |-> {}, skipped |-> {}, added |-> {},
           dup |-> {}, failed |-> {}, listed |-> {}, unlisted |-> {}]
NoPlan == [rebuilt |-> FALSE, queried |-> {}, failed |-> {}, skipped |-> {}]

\* the orderings of S that ascend by field start_dt (ORDER BY ... ASC,
\* orderBy=startTime): each begins with an element that no other precedes
RECURSIVE Ascending(_)
Ascending(S) ==
  IF S = {} THEN {<< >>}
  ELSE UNION {{<<x>> \o f : f \in Ascending(S \ {x})} :
                x \in {m \in S : \A y \in S : m.start_dt <= y.start_dt}}

\* db.upsert_schedule_from_calendar stores note or f"calendar:{source_id}"
\* (db.py:214, 217); a note is a pair <<prefix, rest>>, or empty for NULL
CalendarNote(source_id) == <<"calendar:", source_id>>
NoNote == << >>
\* _day_plan_date before the first build (scheduler_jobs.py:20)
NoDate == -1
\* handle_schedule_next has not answered yet
NoAnswer == [kind |-> "none", summary |-> "", start_dt |-> NoDate]
\* _morning_brief has not spoken yet
NoBrief == [kind |-> "", parts |-> << >>, more |-> << >>]
\* the threads that run functions of scheduler_jobs: two workers of the job
\* runner and the session thread of app.main
Threads == {"runner", "poller", "session"}
NoLocals == [items |-> << >>, today |-> NoDate, seen |-> NoDate, calls |-> 0,
             work |-> << >>, at |-> NoDate, n |-> 0, won |-> {}, lost |-> {},
             hit |-> 0]
\* no upsert_schedule_from_calendar call made yet
NoUpsert == [kind |-> "none", id |-> 0, item |-> "", before |-> 0, after |-> 0,
             others |-> TRUE]

\* the WHERE clause of db.py:208-209
UpsertMatchAnyNote(r, user_id, due_dt, source_id) ==
  r.user_id = user_id /\ r.note = <<"", source_id>> /\ r.due_dt = due_dt

UpsertMatch(r, user_id, due_dt, source_id) ==
  r.user_id = user_id /\ r.note = CalendarNote(source_id) /\ r.due_dt = due_dt

\* db.upsert_schedule_from_calendar (db.py:201-218) on a table and its next id:
\* the new table, the new next id and what happened
upsert_schedule_from_calendar(rows, nid, user_id, item, due_dt, source_id, note) ==
  LET matching == {r \in rows : UpsertMatch(r, user_id, due_dt, source_id)}
      newnote  == IF note # NoNote THEN note ELSE CalendarNote(source_id)
  IN IF matching # {}
       THEN LET row == CHOOSE r \in matching : \A q \in matching : r.id <= q.id
            IN [rows |-> (rows \ {row})
                           \cup {[row EXCEPT !.item = item, !.note = newnote]},
                next_id |-> nid,
                kind |-> "update", id |-> row.id]
       ELSE [rows |-> rows \cup {[id |-> nid, user_id |-> user_id, item |-> item,
                                  due_dt |-> due_dt, note |-> newnote]},
             next_id |-> nid + 1,
             kind |-> "insert", id |-> nid]

\* db.save_schedule (db.py:193-198)
save_schedule(rows, nid, user_id, item, due_dt, note) ==
  rows \cup {[id |-> nid, user_id |-> user_id, item |-> item, due_dt |-> due_dt,
              note |-> note]}

\* f with key k set to v (dict item assignment)
Put(f, k, v) == [x \in (DOMAIN f) \cup {k} |-> IF x = k THEN v ELSE f[x]]

\* dict.get(k, 0)
GetOr0(f, k) == IF k \in DOMAIN f THEN f[k] ELSE 0

\* the stale test of _prune_scheduled_keys with no maximum age
StaleNoMaxAge(ts, now_ts) == ts < now_ts

\* the stale test of _prune_scheduled_keys (scheduler_jobs.py:26-27)
Stale(ts, now_ts) == ts < now_ts - Hours(MAX_AGE_HOURS)

\* scheduler_jobs._prune_scheduled_keys (scheduler_jobs.py:25-29)
prune_scheduled_keys(keys, now_ts) ==
  [k \in {x \in DOMAIN keys : ~Stale(keys[x], now_ts)} |-> keys[k]]

\* the past test with the boundary instant let through
PastDueStrict(run_at, t) == run_at < t

\* the past test of scheduler_jobs.py:379
PastDue(run_at, t) == run_at <= t

\* the membership test left out
AlreadyScheduledNever(keys, key) == FALSE

\* the dedup test of scheduler_jobs.py:384
AlreadyScheduled(keys, key) == key \in DOMAIN keys

\* scheduler_jobs.py:381  key = f"{ev_id}|{lead}"
ScheduledKey(ev_id, lead) == ev_id \o "|" \o ToString(lead)

\* scheduler_jobs.py:395  id=f"ev_{ev_id}_{lead}"
JobId(ev_id, lead) == "ev_" \o ev_id \o "_" \o ToString(lead)

\* a reminder set to run when the item starts
RunAtStart(start_dt, lead) == start_dt

\* scheduler_jobs.py:380  run_at = start_dt - timedelta(minutes=lead)
RunAt(start_dt, lead) == start_dt - Minutes(lead)

\* the body of the two loops of _schedule_event_reminders for one (ev, lead)
\* (scheduler_jobs.py:373-398); the first `fail` calls of add_job in the pass raise
ReminderStep(st, ev, lead, t, fail) ==
  LET run_at == RunAt(ev.start_dt, lead)
      key    == ScheduledKey(ev.id, lead)
  IN IF ev.id = "" THEN st
     ELSE IF PastDue(run_at, t)
       THEN [st EXCEPT !.log.skipped = @ \cup {key}]
       ELSE
         LET kept == prune_scheduled_keys(st.keys, t)
             st1  == [st EXCEPT !.keys = kept,
                                !.log.ran = TRUE,
                                !.log.pruned = @ \cup ((DOMAIN st.keys) \ (DOMAIN kept))]
         IN IF AlreadyScheduled(kept, key) THEN [st1 EXCEPT !.log.dup = @ \cup {key}]
            ELSE
              LET st2 == [st1 EXCEPT !.keys = Put(kept, key, run_at),
                                     !.ins = Put(@, key, t)]
              IN IF Cardinality(st.log.failed) < fail THEN [st2 EXCEPT !.log.failed = @ \cup {key}]
                 ELSE [st2 EXCEPT
                         !.jobs = @ \cup {[id |-> JobId(ev.id, lead), run_at |-> run_at]},
                         !.reg = Put(@, key, GetOr0(@, key) + 1),
                         !.log.added = @ \cup {key}]

RECURSIVE ReminderLoopAborts(_, _, _, _, _, _)
RECURSIVE ReminderLoop(_, _, _, _, _, _)

\* the loops with a failing add_job ending the pass
ReminderLoopAborts(st, items, leads_min, n, t, fail) ==
  IF n > Len(items) * Len(leads_min) \/ st.log.failed # {} THEN st
  ELSE ReminderLoopAborts(
         ReminderStep(st, items[((n - 1) \div Len(leads_min)) + 1],
                      leads_min[((n - 1) % Len(leads_min)) + 1], t, fail),
         items, leads_min, n + 1, t, fail)

\* the loops of scheduler_jobs.py:372-398 from the n-th (ev, lead) pair on,
\* in the order  for ev in items: for lead in leads_min
ReminderLoop(st, items, leads_min, n, t, fail) ==
  IF n > Len(items) * Len(leads_min) THEN st
  ELSE ReminderLoop(
         ReminderStep(st, items[((n - 1) \div Len(leads_min)) + 1],
                      leads_min[((n - 1) % Len(leads_min)) + 1], t, fail),
         items, leads_min, n + 1, t, fail)

\* scheduler_jobs._list_upcoming_events (scheduler_jobs.py:226-275): the events
\* that start within the window, ordered by start time; [] when the call fails
list_upcoming_events(api_ok) ==
  IF ~api_ok THEN {<< >>}
  ELSE Ascending({[id |-> e, summary |-> cal[e].summary, start_dt |-> cal[e].start_dt] :
                    e \in {x \in DOMAIN cal :
                             /\ now <= cal[x].start_dt
                             /\ cal[x].start_dt <= now + Hours(WINDOW_HOURS)}})

\* scheduler_jobs.py:317-319  note.startswith("calendar:")
IsCalendarNote(note) == note # NoNote /\ note[1] = "calendar:"

\* the upcoming rows listed with the rows that mirror calendar events
list_upcoming_schedules_with_mirrors(rows, user_id, db_ok) ==
  IF ~db_ok THEN {<< >>}
  ELSE Ascending({[id |-> "sch_" \o ToString(r.id), summary |-> r.item,
                   start_dt |-> r.due_dt] :
                    r \in {x \in rows :
                             /\ x.user_id = user_id
                             /\ now <= x.due_dt
                             /\ x.due_dt <= now + Hours(WINDOW_HOURS)}})

\* scheduler_jobs._list_upcoming_schedules (scheduler_jobs.py:278-355)
list_upcoming_schedules(rows, user_id, db_ok) ==
  IF ~db_ok THEN {<< >>}
  ELSE Ascending({[id |-> "sch_" \o ToString(r.id), summary |-> r.item,
                   start_dt |-> r.due_dt] :
                    r \in {x \in rows :
                             /\ x.user_id = user_id
                             /\ now <= x.due_dt
                             /\ x.due_dt <= now + Hours(WINDOW_HOURS)
                             /\ ~IsCalendarNote(x.note)}})

\* scheduler_jobs._schedule_event_reminders (scheduler_jobs.py:358-398) on the
\* dedup cache and the pending jobs st, with the two listings it fetched
schedule_event_reminders(st, events, locals, leads_min, fail) ==
  ReminderLoop([st EXCEPT !.log = [NoPass EXCEPT !.listed =
                                     {[id |-> (events \o locals)[i].id,
                                       start_dt |-> (events \o locals)[i].start_dt] :
                                        i \in DOMAIN (events \o locals)}]],
               events \o locals, leads_min, 1, now, fail)

\* today's calendar events, fetched with a failure of the query ignored
list_today_events_unguarded(api_ok) ==
  Ascending({[source |-> "calendar", id |-> e, summary |-> cal[e].summary,
              start_dt |-> cal[e].start_dt] :
               e \in {x \in DOMAIN cal : DateOf(cal[x].start_dt) = DateOf(now)}})

\* scheduler_jobs._list_today_events (scheduler_jobs.py:91-122): today's
\* calendar events as google_calendar.list_today orders them; [] on failure
list_today_events(api_ok) ==
  IF ~api_ok THEN {<< >>}
  ELSE Ascending({[source |-> "calendar", id |-> e, summary |-> cal[e].summary,
                   start_dt |-> cal[e].start_dt] :
                    e \in {x \in DOMAIN cal : DateOf(cal[x].start_dt) = DateOf(now)}})

\* scheduler_jobs._list_local_schedules (scheduler_jobs.py:125-167): every row
\* due today, ORDER BY due_dt ASC; [] on failure
list_local_schedules(rows, db_ok) ==
  IF ~db_ok THEN {<< >>}
  ELSE Ascending({[source |-> "local", id |-> "sch_" \o ToString(r.id),
                   summary |-> r.item, start_dt |-> r.due_dt] :
                    r \in {x \in rows : DateOf(x.due_dt) = DateOf(now)}})

\* x put into the ascending list s behind the elements that do not start later
InsertByStart(x, s) ==
  LET n == Cardinality({i \in 1..Len(s) : s[i].start_dt <= x.start_dt})
  IN SubSeq(s, 1, n) \o <<x>> \o SubSeq(s, n + 1, Len(s))

\* list.sort(key=start_dt): a stable ascending sort
RECURSIVE StableSort(_)
StableSort(s) ==
  IF Len(s) = 0 THEN << >>
  ELSE InsertByStart(s[Len(s)], StableSort(SubSeq(s, 1, Len(s) - 1)))

\* the plan published as fetched
sort_by_time_skipped(items) == items

\* scheduler_jobs.py:195-196  items.sort(key=lambda x: x.get("start_dt"))
sort_by_time(items) == StableSort(items)

\* the rows a (user_id, source_id, due_dt) mirror key names
MirrorRows(rows, user_id, source_id, due_dt) ==
  {r \in rows : r.user_id = user_id /\ r.note = CalendarNote(source_id) /\ r.due_dt = due_dt}

\* one call of db.upsert_schedule_from_calendar as its two callers make it
\* (scheduler_jobs.py:189, google_calendar.py:215: no note argument), on the
\* table db = [rows, next_id, last]; `last` records what the call did
UpsertCall(db, user_id, item, due_dt, source_id) ==
  LET r == upsert_schedule_from_calendar(db.rows, db.next_id, user_id, item, due_dt,
                                         source_id, NoNote)
  IN [rows |-> r.rows, next_id |-> r.next_id,
      last |-> [kind |-> r.kind, id |-> r.id, item |-> item,
                before |-> Cardinality(MirrorRows(db.rows, user_id, source_id, due_dt)),
                after |-> Cardinality(MirrorRows(r.rows, user_id, source_id, due_dt)),
                others |-> (r.rows \ MirrorRows(r.rows, user_id, source_id, due_dt))
                           = (db.rows \ MirrorRows(db.rows, user_id, source_id, due_dt))]]

RECURSIVE MirrorCalendarAborts(_, _, _, _, _)
RECURSIVE MirrorCalendar(_, _, _, _, _)

\* a mirroring loop that the first failing upsert ends
MirrorCalendarAborts(db, user_id, events, n, bad) ==
  IF n > Len(events) \/ n \in bad THEN db
  ELSE MirrorCalendarAborts(
         IF events[n].id # "" THEN
           UpsertCall(db, user_id, events[n].summary, events[n].start_dt, events[n].id)
         ELSE db,
         user_id, events, n + 1, bad)

\* the mirroring loop of _rebuild_day_plan (scheduler_jobs.py:180-193) from the
\* n-th calendar item on; the upserts of the items at the positions `bad`
\* raise, which is logged and the item skipped
MirrorCalendar(db, user_id, events, n, bad) ==
  IF n > Len(events) THEN db
  ELSE MirrorCalendar(
         IF events[n].id # "" /\ n \notin bad THEN
           UpsertCall(db, user_id, events[n].summary, events[n].start_dt, events[n].id)
         ELSE db,
         user_id, events, n + 1, bad)

\* the schedules table as the engine sees it
Table == [rows |-> schedules, next_id |-> next_id, last |-> lastUpsert]

\* scheduler_jobs._rebuild_day_plan (scheduler_jobs.py:170-200) with the two
\* listings it fetched: the table it leaves and the list it publishes
rebuild_day_plan(user_id, events, locals, bad) ==
  [db |-> MirrorCalendar(Table, user_id, events, 1, bad),
   items |-> sort_by_time(events \o locals),
   date |-> DateOf(now),
   log |-> [rebuilt |-> TRUE, queried |-> {"calendar", "schedules"},
            skipped |-> {events[i].id : i \in bad \cap DOMAIN events}]]

\* an _ensure_day_plan that rebuilds whatever the date of the cache
ensure_day_plan_always_rebuilds(user_id, events, locals, bad) ==
  rebuild_day_plan(user_id, events, locals, bad)

\* scheduler_jobs._ensure_day_plan (scheduler_jobs.py:203-210)
ensure_day_plan(user_id, events, locals, bad) ==
  IF day_plan_date # DateOf(now)
    THEN rebuild_day_plan(user_id, events, locals, bad)
    ELSE [db |-> Table, items |-> day_plan, date |-> day_plan_date,
          log |-> [rebuilt |-> FALSE, queried |-> {}, skipped |-> {}]]

\* the state of the scheduling engine when the module is loaded
\* (scheduler_jobs.py:19-22), beside a calendar c and a schedules table
SchedBoot(c, rows, nid) ==
  /\ now = 0
  /\ cal = c
  /\ schedules = rows
  /\ next_id = nid
  /\ scheduled_keys = << >>
  /\ jobs = {}
  /\ sched = None
  /\ edits = 0
  /\ ran_now = {}
  /\ day_plan = << >>
  /\ day_plan_date = NoDate
  /\ returned = << >>
  /\ regCount = << >>
  /\ insertedAt = << >>
  /\ lastPass = NoPass
  /\ passes = 0
  /\ lastUpsert = NoUpsert
  /\ lastPlan = NoPlan
  /\ sched_gen = 0
  /\ deaths = 0
  /\ next_said = NoAnswer
  /\ brief_said = NoBrief
  /\ lock = None
  /\ tpc = [t \in Threads |-> "idle"]
  /\ tlocal = [t \in Threads |-> NoLocals]
  /\ accesses = {}
  /\ audio_lock = None
  /\ audio = [t \in Threads |-> "none"]
  /\ environ_leads = << >>
  /\ leads = << >>
  /\ leads_said = ""

SchedIdle == SchedBoot(<< >>, {}, 1)

InitSession ==
  /\ SessionInit
  /\ WatchdogInit(0, 240, 30, TRUE)
  /\ SchedIdle

NextSession ==
  \/ LoopTop \/ LoopReset \/ LoopSleepSkip \/ LoopBranch
  \/ IdleListen \/ IdleSleepCheck \/ ActiveSleepCheck \/ ExitSpeak \/ SleepSpeak
  \/ IdleMusic \/ IdleMusicAction \/ IdleMusicPrompt \/ IdleWake \/ Greet
  \/ ActiveListen \/ ActiveTurn \/ IdleNotice \/ Detect \/ Special
  \/ SimpleHandler \/ SpotifyHandler \/ MultiHandlerStep \/ MultiHandlerDone
  \/ Followup \/ Apology \/ stall_detected \/ loop_stalled \/ stop_signal

SpecSession == InitSession /\ [][NextSession]_vars

(***************************************************************************)
(* Session loop: properties                                                *)
(***************************************************************************)
\* a step of the session loop: the stall callback leaves pc alone, and the
\* signal handler is the only step that exits from a place other than exit_speak
SessionStep == pc' # pc /\ (pc' = "exited" => pc = "exit_speak")

\* C4: after exactly 3 consecutive empty turns in Active the counter is reset
\* and conversation_active becomes false, the idle notice being spoken iff
\* playback is not active; fewer than 3 consecutive empty turns never cause
\* the transition, and a non-empty utterance resets the counter.
C4_SilenceThreshold ==
  [][/\ (pc = "active_turn" /\ SessionStep /\ heard = {} /\ emptyRun' = SilentLimit)
          => (silent_turns' = 0 /\ ~conversation_active' /\ pc' = "idle_notice")
     /\ (pc = "active_turn" /\ SessionStep /\ heard = {} /\ emptyRun' < SilentLimit)
          => (pc' # "idle_notice" /\ conversation_active' = conversation_active)
     /\ (pc = "active_turn" /\ SessionStep /\ heard # {}) => silent_turns' = 0
     /\ (pc = "idle_notice" /\ SessionStep)
          => (spoken' = IF playback THEN "" ELSE "idle_notice")]_vars

\* the three transitions that C8 allows
WakeCueStep ==
  pc = "idle_wake" /\ SessionStep /\ heard_wake_word(heard)
  /\ ~conversation_active /\ conversation_active'

SleepPhraseStep ==
  pc \in {"idle_sleepcheck", "active_sleepcheck"} /\ SessionStep
  /\ check_sleep_mode(heard) = "sleep" /\ conversation_active /\ ~conversation_active'

SilenceExpiryStep ==
  pc = "active_turn" /\ SessionStep /\ heard = {} /\ silent_turns + 1 >= SilentLimit
  /\ conversation_active /\ ~conversation_active'

\* the further transitions the code makes
MusicControlStep ==
  pc = "idle_music" /\ SessionStep /\ playback
  /\ detect_intent(heard) \in music_control_intents
  /\ ~conversation_active /\ conversation_active'

MusicSleepStep ==
  pc \in {"idle_music_prompt", "followup"} /\ SessionStep /\ playback
  /\ conversation_active /\ ~conversation_active'

StallResetStep ==
  pc' = pc /\ stall_pending /\ conversation_active /\ ~conversation_active'
  /\ ~sleep_requested'

\* C8 as stated: conversation_active changes only by a wake cue heard in Idle,
\* an explicit sleep phrase, or expiry of the silent-turn threshold.
C8_Original ==
  [][conversation_active' # conversation_active
       => (WakeCueStep \/ SleepPhraseStep \/ SilenceExpiryStep)]_vars

\* C8 amended: conversation_active changes only by a wake cue heard in Idle, a
\* playback-control intent heard in Idle while playback is active, an explicit
\* sleep phrase, expiry of the silent-turn threshold,
\* enter_music_sleep_if_needed while playback is active, or the watchdog
\* stall callback.
C8_Amended ==
  [][conversation_active' # conversation_active
       => (WakeCueStep \/ SleepPhraseStep \/ SilenceExpiryStep
           \/ MusicControlStep \/ MusicSleepStep \/ StallResetStep)]_vars

C8_Witness == cause = "stall" /\ ~conversation_active

\* C9: an exception raised while a turn is dispatched never leaves the main
\* loop; it yields exactly one spoken apology and conversation_active is kept.
C9_DispatchFailureAbsorbed ==
  [][/\ pc' # "crashed"
     /\ (pc = "apology" /\ SessionStep)
          => (spoken' = "apology" /\ apologies' = 1 /\ pc' = "top"
              /\ conversation_active' = conversation_active)]_vars

\* C10: once the stall callback has fired during a multi-step handler,
\* conversation_active and the sleep flag are false and that handler issues
\* no further prompt.
C10_StallDiscardsDialogue ==
  [][/\ (pc' = pc /\ <<conversation_active, sleep_requested>>'
                          # <<conversation_active, sleep_requested>>)
          => (~conversation_active' /\ ~sleep_requested')
     /\ stalledInHandler' => promptsAfterStall' = 0]_vars

(***************************************************************************)
(* Watchdog: specification and properties                                  *)
(***************************************************************************)
InitWatchdog ==
  /\ \E t0 \in 0..MaxBoot, timeout \in TimeoutArgs, interval \in IntervalArgs,
        has_cb \in BOOLEAN :
       WatchdogInit(t0, timeout, interval, has_cb)
  /\ SessionInit
  /\ SchedIdle

NextWatchdog == ClockTick \/ beat \/ stop \/ monitor_loop

SpecWatchdog == InitWatchdog /\ [][NextWatchdog]_vars

\* a step that is one iteration of the monitor loop
MonitorTick == wd_wake' # wd_wake

\* C3: with an on_stall callback, the first monitor tick that observes
\* age() > timeout since the last beat invokes on_stall exactly once, and two
\* invocations are never less than timeout/2 apart.
C3_StallAlertOnce ==
  [][/\ (MonitorTick /\ wd_on_stall /\ age > wd_timeout /\ ~staleSeen)
          => stallCalls' = stallCalls + 1
     /\ stallCalls' # stallCalls
          => /\ stallCalls' = stallCalls + 1
             /\ MonitorTick /\ age > wd_timeout
             /\ (stallCalls = 0 \/ 2 * (mono - lastStallAt) >= wd_timeout)]_vars

\* the callback has fired twice under sustained staleness, with a stale tick
\* in between that the alert window suppressed
C3_Witness == stallCalls >= 2 /\ suppressed >= 1 /\ staleSeen

(***************************************************************************)
(* The reminder engine: day plan, mirroring and reminder scheduling         *)
(***************************************************************************)
MaxEdits == 1

\* the instants at which the clock is observed: start-up, half an hour later,
\* and twenty minutes over the maximum age
Instants == {0, Minutes(30), Hours(MAX_AGE_HOURS) + Minutes(20)}
\* how far ahead of `now` a created or moved item starts
StartOffset == Minutes(45)
Events == {"evA", "evB"}
Titles == {"Standup", "Review"}

\* what can go wrong while one handler runs: the calendar API, the database
\* or the job runner raises
Faults == {"none", "calendar", "database", "runner"}

Engine == [keys |-> scheduled_keys, jobs |-> jobs, reg |-> regCount,
           ins |-> insertedAt, log |-> lastPass]

CandidateKeys(items, leads_min) ==
  {ScheduledKey(items[i].id, leads_min[j]) : i \in DOMAIN items, j \in DOMAIN leads_min}

\* the plan r published and returned (scheduler_jobs.py:197-200, 210)
PublishPlan(r, failing) ==
  /\ lastPlan' = [rebuilt |-> r.log.rebuilt,
                  queried |-> r.log.queried, failed |-> r.log.queried \cap failing,
                  skipped |-> r.log.skipped]
  /\ day_plan' = r.items
  /\ day_plan_date' = r.date
  /\ returned' = r.items
  /\ schedules' = r.db.rows
  /\ next_id' = r.db.next_id
  /\ lastUpsert' = r.db.last

\* one run of _schedule_event_reminders over the table `rows`, on a job
\* runner whose dedup cache and pending jobs are those of st0, with the
\* `leads` that the closure of start_recurring holds when the pass runs
RunPassOn(st0, rows, user_id, fault) ==
  \E ue \in list_upcoming_events(fault # "calendar") :
    \E ul \in list_upcoming_schedules(rows, user_id, fault # "database") :
      LET fail == IF fault = "runner" THEN 1 ELSE 0
          st   == schedule_event_reminders(st0, ue, ul, leads', fail)
      IN /\ scheduled_keys' = st.keys
         /\ jobs' = st.jobs
         /\ regCount' = st.reg
         /\ insertedAt' = st.ins
         /\ lastPass' = [st.log EXCEPT !.unlisted =
                           IF fault = "calendar" THEN {"calendar"}
                           ELSE IF fault = "database" THEN {"schedules"} ELSE {}]
         /\ passes' = 1 - passes

\* one run of _schedule_event_reminders on the current job runner
RunPass(rows, user_id, fault) == RunPassOn(Engine, rows, user_id, fault)

\* _rebuild_day_plan (ensure = FALSE) or _ensure_day_plan (ensure = TRUE)
RunPlan(user_id, ensure, fault) ==
  \E evs \in list_today_events(fault # "calendar") :
    \E los \in list_local_schedules(schedules, fault # "database") :
      PublishPlan(IF ensure
                    THEN ensure_day_plan(user_id, evs, los,
                                         IF fault = "database" THEN DOMAIN evs ELSE {})
                    ELSE rebuild_day_plan(user_id, evs, los,
                                          IF fault = "database" THEN DOMAIN evs ELSE {}),
                  IF fault = "calendar" THEN {"calendar"}
                  ELSE IF fault = "database" THEN {"schedules"} ELSE {})

\* time passes; the job runner fires and drops the one-shot jobs that fall due
ClockAdvance ==
  /\ \E t \in Instants : t > now /\ now' = t
  /\ jobs' = {j \in jobs : j.run_at > now'}
  /\ ran_now' = {}
  /\ UNCHANGED <<cal, schedules, next_id, scheduled_keys, sched, edits, day_plan,
                 day_plan_date, returned, regCount, insertedAt, lastPass, passes, lastPlan,
                 lastUpsert, runVars, askVars, lockVars, wdVars, sessVars>>

\* scheduler_jobs.start_recurring (scheduler_jobs.py:422-461): the initial
\* build and the first scheduling pass, then the runner starts
start_recurring ==
  /\ sched = None
  /\ leads' = EnvLeads(environ_leads)
  /\ \E fault \in Faults :
       /\ RunPlan(USER_ID, FALSE, fault)
       /\ RunPass(schedules', USER_ID, fault)
  /\ sched' = "running"
  /\ sched_gen' = sched_gen + 1
  /\ UNCHANGED <<now, cal, edits, ran_now, deaths, environ_leads, leads_said,
                 askVars, lockVars, wdVars, sessVars>>

\* poll_and_schedule (scheduler_jobs.py:436-440), the 5-minute interval job
poll_and_schedule ==
  /\ sched = "running"
  /\ "calendar_poll" \notin ran_now
  /\ UNCHANGED leadVars
  /\ \E fault \in Faults :
       /\ RunPlan(USER_ID, TRUE, fault)
       /\ RunPass(schedules', USER_ID, fault)
  /\ ran_now' = ran_now \cup {"calendar_poll"}
  /\ UNCHANGED <<now, cal, sched, edits, sched_gen, deaths, askVars, lockVars, wdVars,
                 sessVars>>

\* how many items of the plan the brief reads out (scheduler_jobs.py:220)
BRIEF_ITEMS == 5

\* Python's s[:n]: the first n elements of s, all of s when it is shorter
Slice(s, n) == SubSeq(s, 1, IF Len(s) < n THEN Len(s) ELSE n)

\* a brief that reads out the whole plan
morning_brief_unlimited(plan) ==
  IF Len(plan) = 0 THEN [kind |-> "none", parts |-> << >>, more |-> << >>]
  ELSE [kind |-> "schedule",
        parts |-> [i \in 1..Len(plan) |->
                     [when |-> plan[i].start_dt, summary |-> plan[i].summary]],
        more |-> << >>]

\* what scheduler_jobs._morning_brief speaks for the plan that _ensure_day_plan
\* hands it (scheduler_jobs.py:213-223): the parts joined with "; " and the
\* " and k more." suffix, << >> when the suffix is the empty string
morning_brief(plan) ==
  IF Len(plan) = 0 THEN [kind |-> "none", parts |-> << >>, more |-> << >>]
  ELSE [kind |-> "schedule",
        parts |-> [i \in 1..Len(Slice(plan, BRIEF_ITEMS)) |->
                     [when |-> plan[i].start_dt, summary |-> plan[i].summary]],
        more |-> IF Len(plan) <= BRIEF_ITEMS THEN << >>
                 ELSE <<Len(plan) - BRIEF_ITEMS>>]

\* daily_brief_job (scheduler_jobs.py:444-449), the daily cron job: rebuild,
\* speak the brief, schedule. The plan was rebuilt for today the line before,
\* so the _ensure_day_plan of _morning_brief returns the cached list
daily_brief_job ==
  /\ sched = "running"
  /\ "daily_brief" \notin ran_now
  /\ UNCHANGED leadVars
  /\ \E fault \in Faults :
       /\ RunPlan(USER_ID, FALSE, fault)
       /\ brief_said' = morning_brief(day_plan')
       /\ RunPass(schedules', USER_ID, fault)
  /\ ran_now' = ran_now \cup {"daily_brief"}
  /\ UNCHANGED <<now, cal, sched, edits, sched_gen, deaths, next_said, lockVars, wdVars,
                 sessVars>>

\* agent.handle_schedule_today / handle_schedule_next (agent.py:595-641):
\* both read the plan through _ensure_day_plan
handle_schedule_today ==
  /\ \E fault \in Faults \ {"runner"} : RunPlan(USER_ID, TRUE, fault)
  /\ UNCHANGED <<now, cal, scheduled_keys, jobs, sched, edits, ran_now,
                 regCount, insertedAt, lastPass, passes, runVars, askVars, lockVars, wdVars, sessVars>>

\* datetime.now() at agent.py:625 carries no time zone, while every start_dt
\* of the plan is in the configured zone (scheduler_jobs.py:108, 149-156)
NowIsAware == FALSE
PlanIsAware == TRUE

\* dt > now between two datetimes (agent.py:629): Python raises TypeError when
\* one operand is aware and the other naive
Later(a, a_aware, b, b_aware) ==
  IF a_aware # b_aware THEN "TypeError"
  ELSE IF a > b THEN "yes" ELSE "no"

\* what agent.handle_schedule_next speaks for the plan at time t
\* (agent.py:620-640): the loop stops at the first item whose comparison does
\* not answer "no"; an exception is caught by the handler's except clause
schedule_next(plan, t) ==
  IF Len(plan) = 0 THEN [kind |-> "free", summary |-> "", start_dt |-> NoDate]
  ELSE
    LET cmp(i) == Later(plan[i].start_dt, PlanIsAware, t, NowIsAware)
        stops  == {i \in DOMAIN plan : cmp(i) # "no"}
    IN IF stops = {}
         THEN [kind |-> "last", summary |-> plan[Len(plan)].summary,
               start_dt |-> plan[Len(plan)].start_dt]
         ELSE LET i == CHOOSE x \in stops : \A y \in stops : x <= y
              IN IF cmp(i) = "TypeError"
                   THEN [kind |-> "error", summary |-> "", start_dt |-> NoDate]
                   ELSE [kind |-> "next", summary |-> plan[i].summary,
                         start_dt |-> plan[i].start_dt]

\* agent.handle_schedule_next (agent.py:616-640)
handle_schedule_next ==
  /\ \E fault \in Faults \ {"runner"} : RunPlan(USER_ID, TRUE, fault)
  /\ next_said' = schedule_next(day_plan', now)
  /\ UNCHANGED <<now, cal, scheduled_keys, jobs, sched, edits, ran_now,
                 regCount, insertedAt, lastPass, passes, runVars, brief_said,
                 lockVars, wdVars, sessVars>>

\* agent.handle_calrem_refresh (agent.py:663-681)
handle_calrem_refresh ==
  /\ \E fault \in Faults \ {"runner"} : RunPlan(USER_ID, FALSE, fault)
  /\ UNCHANGED <<now, cal, scheduled_keys, jobs, sched, edits, ran_now,
                 regCount, insertedAt, lastPass, passes, runVars, askVars, lockVars, wdVars, sessVars>>

\* google_calendar.create_event (google_calendar.py:219-257): the event is
\* created and mirrored into the schedules table; a failing mirror is logged
create_event ==
  /\ edits < MaxEdits
  /\ \E e \in Events \ DOMAIN cal, db_ok \in BOOLEAN :
       LET start == now + StartOffset
           title == "Review"
           db    == IF db_ok THEN UpsertCall(Table, USER_ID, title, start, e) ELSE Table
       IN /\ cal' = Put(cal, e, [summary |-> title, start_dt |-> start])
          /\ schedules' = db.rows
          /\ next_id' = db.next_id
          /\ lastUpsert' = db.last
  /\ edits' = edits + 1
  /\ regCount' = << >>
  /\ UNCHANGED <<now, scheduled_keys, jobs, sched, ran_now, day_plan,
                 day_plan_date, returned, insertedAt, lastPass, passes, lastPlan, runVars, askVars, lockVars, wdVars, sessVars>>

\* services_calendar.create_reminder (services_calendar.py:6-7)
create_reminder ==
  /\ edits < MaxEdits
  /\ Cardinality({r \in schedules : ~IsCalendarNote(r.note)}) < MaxRows
  /\ \E user_id \in Users :
       schedules' = save_schedule(schedules, next_id, user_id, "Pills",
                                  now + StartOffset, NoNote)
  /\ next_id' = next_id + 1
  /\ edits' = edits + 1
  /\ regCount' = << >>
  /\ UNCHANGED <<now, cal, scheduled_keys, jobs, sched, ran_now, day_plan,
                 day_plan_date, returned, insertedAt, lastPass, passes, lastPlan, lastUpsert,
                 runVars, askVars, lockVars, wdVars, sessVars>>

\* the owner renames an event in the calendar itself
calendar_rename ==
  /\ edits < MaxEdits
  /\ \E e \in DOMAIN cal : \E title \in Titles \ {cal[e].summary} :
       cal' = [cal EXCEPT ![e].summary = title]
  /\ edits' = edits + 1
  /\ regCount' = << >>
  /\ UNCHANGED <<now, schedules, next_id, scheduled_keys, jobs, sched,
                 ran_now, day_plan, day_plan_date, returned, insertedAt, lastPass,
                 passes, lastPlan, lastUpsert, runVars, askVars, lockVars, wdVars, sessVars>>

\* the owner moves an event in the calendar itself
calendar_move ==
  /\ edits < MaxEdits
  /\ \E e \in DOMAIN cal :
       /\ cal[e].start_dt # now + StartOffset
       /\ cal' = [cal EXCEPT ![e].start_dt = now + StartOffset]
  /\ edits' = edits + 1
  /\ regCount' = << >>
  /\ UNCHANGED <<now, schedules, next_id, scheduled_keys, jobs, sched,
                 ran_now, day_plan, day_plan_date, returned, insertedAt, lastPass,
                 passes, lastPlan, lastUpsert, runVars, askVars, lockVars, wdVars, sessVars>>

\* at start-up the calendar holds one event twenty minutes ahead and the
\* schedules table one reminder of the owner half an hour ahead
InitReminders ==
  /\ SessionInit
  /\ WatchdogInit(0, 240, 30, TRUE)
  /\ SchedBoot([e \in {"evA"} |-> [summary |-> "Standup", start_dt |-> Minutes(20)]],
               {[id |-> 1, user_id |-> USER_ID, item |-> "Pills",
                 due_dt |-> Minutes(30), note |-> NoNote]},
               2)

\* the job runner's side: start-up, the periodic jobs, and the world changing
NextReminders ==
  \/ ClockAdvance
  \/ start_recurring
  \/ poll_and_schedule
  \/ daily_brief_job
  \/ calendar_move
  \/ create_reminder

SpecReminders == InitReminders /\ [][NextReminders]_vars

\* the assistant's side: start-up, the schedule handlers, and the world changing
NextDayPlan ==
  \/ ClockAdvance
  \/ start_recurring
  \/ handle_schedule_today
  \/ handle_calrem_refresh
  \/ create_event
  \/ calendar_rename
  \/ calendar_move
  \/ create_reminder

SpecDayPlan == InitReminders /\ [][NextDayPlan]_vars

(***************************************************************************)
(* Properties of the reminder engine                                        *)
(***************************************************************************)
\* a step that ran _schedule_event_reminders
PassStep == passes' # passes

\* every item the engine can list, calendar event or local reminder
AllItems ==
  {[id |-> e, start_dt |-> cal[e].start_dt] : e \in DOMAIN cal}
    \cup {[id |-> "sch_" \o ToString(r.id), start_dt |-> r.due_dt] : r \in schedules}

LeadSet == {env_leads[i] : i \in DOMAIN env_leads}

\* C1: over an unchanged set of upcoming items, however many scheduling
\* passes run and however they interleave with the clock, no (itemId, lead)
\* pair is registered with the job runner more than once.
C1_AtMostOncePerKey ==
  \A k \in DOMAIN regCount : regCount[k] <= 1

\* a pass met a key that an earlier pass over the same items had registered
\* and whose run time is still ahead, and registered nothing
C1_Witness ==
  /\ lastPass.ran
  /\ lastPass.added = {}
  /\ \E k \in DOMAIN regCount :
       /\ regCount[k] = 1
       /\ k \in DOMAIN scheduled_keys
       /\ scheduled_keys[k] > now

\* C2: a scheduling pass never registers a job whose run time is at or before
\* the pass's now, and an (item, lead) pair with start - lead <= now gets
\* neither a job nor a dedup entry from the pass.
C2_NoJobInThePast ==
  [][PassStep =>
       /\ \A j \in jobs' \ jobs : j.run_at > now
       /\ \A k \in DOMAIN scheduled_keys' :
            (k \notin DOMAIN scheduled_keys \/ scheduled_keys'[k] # scheduled_keys[k])
              => scheduled_keys'[k] > now
       /\ \A it \in AllItems : \A lead \in LeadSet :
            (it.start_dt - Minutes(lead) <= now) =>
              /\ \A j \in jobs' \ jobs : j.id # JobId(it.id, lead)
              /\ LET k == ScheduledKey(it.id, lead)
                 IN k \in DOMAIN scheduled_keys' =>
                      /\ k \in DOMAIN scheduled_keys
                      /\ scheduled_keys'[k] = scheduled_keys[k]]_vars

\* one pass skipped a pair as past and registered another
C2_Witness ==
  /\ lastPass.skipped # {}
  /\ lastPass.added # {}

\* C7 as stated: a prune pass removes every entry inserted more than 48 hours
\* ago, removes no entry inserted less than 48 hours ago, and a removed entry
\* that is present afterwards was registered anew by the pass.
C7_Original ==
  [][(PassStep /\ lastPass'.ran) =>
       /\ \A k \in DOMAIN scheduled_keys :
            (now - insertedAt[k] > Hours(MAX_AGE_HOURS)) => k \in lastPass'.pruned
       /\ \A k \in lastPass'.pruned : ~(now - insertedAt[k] < Hours(MAX_AGE_HOURS))
       /\ \A k \in lastPass'.pruned :
            k \in DOMAIN scheduled_keys' =>
              (insertedAt'[k] = now /\ scheduled_keys'[k] > now)]_vars

\* C7 amended: a prune pass removes every entry whose recorded run time is
\* more than 48 hours before the pass's now, removes no entry inserted less
\* than 48 hours ago, and a removed entry that is present afterwards was
\* registered anew by the pass.
C7_Amended ==
  [][(PassStep /\ lastPass'.ran) =>
       /\ \A k \in DOMAIN scheduled_keys :
            (now - scheduled_keys[k] > Hours(MAX_AGE_HOURS)) => k \in lastPass'.pruned
       /\ \A k \in lastPass'.pruned : ~(now - insertedAt[k] < Hours(MAX_AGE_HOURS))
       /\ \A k \in lastPass'.pruned :
            k \in DOMAIN scheduled_keys' =>
              (insertedAt'[k] = now /\ scheduled_keys'[k] > now)]_vars

\* a pass pruned an entry and registered the same key again
C7_Witness ==
  \E k \in lastPass.pruned :
    /\ k \in lastPass.added
    /\ k \in DOMAIN scheduled_keys
    /\ insertedAt[k] = now

IsSortedByStart(s) ==
  \A i \in 1..(Len(s) - 1) : s[i].start_dt <= s[i + 1].start_dt

\* C5: the cached day plan, and every list _rebuild_day_plan or
\* _ensure_day_plan returns, is sorted ascending by start time.
C5_DayPlanSorted ==
  /\ IsSortedByStart(day_plan)
  /\ IsSortedByStart(returned)

\* the returned plan holds a local reminder ahead of a calendar event, though
\* the calendar events were fetched first
C5_Witness ==
  /\ returned = day_plan
  /\ \E i \in 1..(Len(day_plan) - 1) :
       /\ day_plan[i].source = "local"
       /\ day_plan[i + 1].source = "calendar"
       /\ day_plan[i].start_dt < day_plan[i + 1].start_dt

\* C6: after an upsert_schedule_from_calendar call exactly one row carries the
\* (userId, sourceId, dueAt) key: the call inserts when no row carried it and
\* otherwise only updates the fields of the row that did; no other row changes.
C6_UpsertIdempotent ==
  lastUpsert.kind # "none" =>
    /\ lastUpsert.after = 1
    /\ lastUpsert.others
    /\ (lastUpsert.before = 0 => lastUpsert.kind = "insert")
    /\ (lastUpsert.before >= 1 => lastUpsert.kind = "update")

\* a second call with the key of an earlier one updated the row with a new title
C6_Witness ==
  /\ lastUpsert.kind = "update"
  /\ lastUpsert.before = 1
  /\ lastUpsert.item = "Review"
  /\ \E r \in schedules :
       /\ r.id = lastUpsert.id
       /\ r.item = "Review"
       /\ IsCalendarNote(r.note)

(***************************************************************************)
(* The job runner's guard: uptime_monitor.start_scheduler_guard and the     *)
(* restart callback app._restart_scheduler                                  *)
(***************************************************************************)
MaxDeaths == 1

\* a job runner that answers "running" although it has stopped
is_running_unless_absent(s) == s # None

\* uptime_monitor._is_running (uptime_monitor.py:101-112): an absent runner
\* is not running; otherwise its state decides
is_running(s) == s = "running"

\* the current job runner stops running on its own (its thread dies, it is
\* paused or shut down); its handle stays in app._scheduler_instance
runner_dies ==
  /\ sched = "running"
  /\ deaths < MaxDeaths
  /\ sched' = "stopped"
  /\ deaths' = deaths + 1
  /\ UNCHANGED <<now, cal, schedules, next_id, scheduled_keys, jobs, edits, ran_now,
                 day_plan, day_plan_date, returned, regCount, insertedAt, lastPass,
                 passes, lastUpsert, lastPlan, sched_gen, leadVars, askVars, lockVars,
                 wdVars, sessVars>>

\* one round of uptime_monitor._guard_loop (uptime_monitor.py:114-120) that
\* finds the runner down and calls app._restart_scheduler (app.py:134-143):
\* the handle is cleared, the old runner shut down with its pending jobs, and
\* app._start_scheduler (app.py:125-131) stores what start_recurring returns;
\* ok = FALSE when start_recurring returns None or raises before its build
scheduler_guard(ok) ==
  /\ ~is_running(sched)
  /\ IF ok
       THEN /\ leads' = EnvLeads(environ_leads)
            /\ \E fault \in Faults :
                 /\ RunPlan(USER_ID, FALSE, fault)
                 /\ RunPassOn([Engine EXCEPT !.jobs = {}], schedules', USER_ID, fault)
            /\ sched' = "running"
            /\ sched_gen' = sched_gen + 1
       ELSE /\ sched' = None
            /\ jobs' = {}
            /\ UNCHANGED <<schedules, next_id, scheduled_keys, day_plan, day_plan_date,
                           returned, regCount, insertedAt, lastPass, passes, lastUpsert,
                           lastPlan, sched_gen, leads>>
  /\ UNCHANGED <<now, cal, edits, ran_now, deaths, environ_leads, leads_said,
                 askVars, lockVars, wdVars, sessVars>>

\* the job runner, its periodic pass, its failures and its guard
NextGuard ==
  \/ ClockAdvance
  \/ start_recurring
  \/ poll_and_schedule
  \/ runner_dies
  \/ \E ok \in BOOLEAN : scheduler_guard(ok)

SpecGuard == InitReminders /\ [][NextGuard]_vars

\* the guard loop never ends (while True, every exception caught), and
\* start_recurring does not fail for ever
SpecGuardLive == SpecGuard /\ WF_vars(scheduler_guard(TRUE))

C12_RestartReRegisters ==
  [][(/\ sched # "running" /\ sched' = "running"
      /\ lastPlan'.failed = {} /\ lastPass'.failed = {})
       => \A ev \in lastPass'.listed, lead \in LeadSet :
            ev.start_dt - Minutes(lead) > now
              => \E j \in jobs' : /\ j.id = JobId(ev.id, lead)
                                  /\ j.run_at = ev.start_dt - Minutes(lead)]_vars

\* a step that runs _rebuild_day_plan from the assistant's side
RebuildStep ==
  \/ start_recurring
  \/ handle_calrem_refresh
  \/ (handle_schedule_today /\ day_plan_date # DateOf(now))

\* C13: when the calendar query fails during an agenda rebuild the failure is
\* absorbed: the calendar slice is empty, the rebuild completes with the local
\* items alone, sorted, caches them under today's date and returns them.
C13_CalendarFailureAbsorbed ==
  [][(RebuildStep /\ "calendar" \in lastPlan'.failed)
       => /\ lastPlan'.rebuilt
          /\ day_plan' \in {sort_by_time(los) : los \in list_local_schedules(schedules, TRUE)}
          /\ \A i \in DOMAIN day_plan' : day_plan'[i].source = "local"
          /\ day_plan_date' = DateOf(now)
          /\ returned' = day_plan'
          /\ schedules' = schedules]_vars

\* a rebuild whose calendar query failed published today's local items while
\* the calendar holds an event of today
C13_Witness ==
  /\ lastPlan.rebuilt
  /\ "calendar" \in lastPlan.failed
  /\ day_plan_date = DateOf(now)
  /\ day_plan # << >>
  /\ returned = day_plan
  /\ \E e \in DOMAIN cal : DateOf(cal[e].start_dt) = DateOf(now)

\* C14: the agenda is cached under the local date. _ensure_day_plan on the
\* date of the cache returns the cached list and queries neither source; on
\* another date it runs a full rebuild; an explicit _rebuild_day_plan always
\* rebuilds.
C14_PlanCachedPerDate ==
  [][/\ (handle_schedule_today /\ day_plan_date = DateOf(now))
          => /\ returned' = day_plan
             /\ day_plan' = day_plan
             /\ day_plan_date' = day_plan_date
             /\ schedules' = schedules
             /\ ~lastPlan'.rebuilt
             /\ lastPlan'.queried = {}
     /\ (handle_schedule_today /\ day_plan_date # DateOf(now))
          => /\ lastPlan'.rebuilt
             /\ lastPlan'.queried = {"calendar", "schedules"}
             /\ day_plan_date' = DateOf(now)
             /\ returned' = day_plan'
     /\ handle_calrem_refresh
          => /\ lastPlan'.rebuilt
             /\ lastPlan'.queried = {"calendar", "schedules"}
             /\ day_plan_date' = DateOf(now)
             /\ returned' = day_plan']_vars

\* _ensure_day_plan answered from the cache of the same date, and the cached
\* list no longer matches the calendar
C14_Witness ==
  /\ ~lastPlan.rebuilt
  /\ lastPlan.queried = {}
  /\ day_plan_date = DateOf(now)
  /\ returned = day_plan
  /\ \E i \in DOMAIN day_plan :
       /\ day_plan[i].source = "calendar"
       /\ day_plan[i].id \in DOMAIN cal
       /\ cal[day_plan[i].id].summary # day_plan[i].summary

\* the assistant's schedule handlers over the cached plan while the clock
\* runs and the calendar changes
NextPlanCache ==
  \/ ClockAdvance
  \/ start_recurring
  \/ handle_schedule_today
  \/ handle_calrem_refresh
  \/ calendar_rename

SpecPlanCache == InitReminders /\ [][NextPlanCache]_vars

\* C15: within one scheduling pass a failure of the job runner to register the
\* job of one (item, lead) is skipped, and the pass still handles every other
\* lead and item: each listed pair that is due in the future, is not in the
\* pruned dedup cache and did not fail has its job on the runner afterwards.
C15_RegistrationFailureSkipped ==
  [][(PassStep /\ lastPass'.failed # {})
       => /\ lastPass'.failed \cap lastPass'.added = {}
          /\ \A ev \in lastPass'.listed, lead \in LeadSet :
               (/\ ev.start_dt - Minutes(lead) > now
                /\ ScheduledKey(ev.id, lead)
                     \notin DOMAIN prune_scheduled_keys(scheduled_keys, now)
                /\ ScheduledKey(ev.id, lead) \notin lastPass'.failed)
                 => /\ ScheduledKey(ev.id, lead) \in lastPass'.added
                    /\ [id |-> JobId(ev.id, lead),
                        run_at |-> ev.start_dt - Minutes(lead)] \in jobs']_vars

\* a pass in which add_job raised for one pair registered the job of a later one
C15_Witness ==
  /\ lastPass.failed # {}
  /\ \E k \in lastPass.added : k \notin lastPass.failed
  /\ \E j \in jobs, ev \in lastPass.listed, lead \in LeadSet :
       /\ ScheduledKey(ev.id, lead) \in lastPass.added
       /\ j.id = JobId(ev.id, lead)

(***************************************************************************)
(* "What's next": agent.handle_schedule_next over the cached agenda         *)
(***************************************************************************)
\* the assistant's side with the "what's next" query
NextAgenda ==
  \/ ClockAdvance
  \/ start_recurring
  \/ handle_schedule_next
  \/ calendar_move
  \/ create_reminder

SpecAgenda == InitReminders /\ [][NextAgenda]_vars

\* the items of the plan that start strictly after t
Upcoming(plan, t) == {i \in DOMAIN plan : plan[i].start_dt > t}

\* C16: for a non-empty agenda, "what's next" at time now reports the first
\* agenda item whose start is strictly after now, and when there is none it
\* reports the chronologically last item as the last thing of the day.
C16_WhatsNext ==
  [][(handle_schedule_next /\ day_plan' # << >>)
       => IF Upcoming(day_plan', now) # {}
            THEN LET i == CHOOSE x \in Upcoming(day_plan', now) :
                            \A y \in Upcoming(day_plan', now) : x <= y
                 IN next_said' = [kind |-> "next", summary |-> day_plan'[i].summary,
                                  start_dt |-> day_plan'[i].start_dt]
            ELSE next_said' = [kind |-> "last",
                               summary |-> day_plan'[Len(day_plan')].summary,
                               start_dt |-> day_plan'[Len(day_plan')].start_dt]]_vars

(***************************************************************************)
(* The scheduling pass by itself                                            *)
(***************************************************************************)
\* the job runner's start-up and its five-minute pass while the items change
NextPass ==
  \/ ClockAdvance
  \/ start_recurring
  \/ poll_and_schedule
  \/ calendar_move
  \/ create_reminder

SpecPass == InitReminders /\ [][NextPass]_vars

\* the items of the lookahead window: the calendar events and the owner's own
\* reminders that start between now and WINDOW_HOURS from now
WindowItems ==
  {[id |-> e, start_dt |-> cal[e].start_dt] :
     e \in {x \in DOMAIN cal : /\ now <= cal[x].start_dt
                                /\ cal[x].start_dt <= now + Hours(WINDOW_HOURS)}}
    \cup {[id |-> "sch_" \o ToString(r.id), start_dt |-> r.due_dt] :
            r \in {x \in schedules : /\ x.user_id = USER_ID
                                     /\ ~IsCalendarNote(x.note)
                                     /\ now <= x.due_dt
                                     /\ x.due_dt <= now + Hours(WINDOW_HOURS)}}

\* C17: a scheduling pass whose listings and registrations succeed registers a
\* job for (item, lead) exactly when the item is in the lookahead window, its
\* run time start - lead is strictly after now, and its key is not in the
\* (pruned) dedup cache; the job runs at that run time, and the jobs already
\* pending stay as they are.
C17_RegistersExactly ==
  [][(PassStep /\ lastPass'.unlisted = {} /\ lastPass'.failed = {})
       => /\ \A ev \in AllItems, lead \in LeadSet :
               ScheduledKey(ev.id, lead) \in lastPass'.added
                 <=> /\ ev \in WindowItems
                     /\ ev.start_dt - Minutes(lead) > now
                     /\ ScheduledKey(ev.id, lead)
                          \notin DOMAIN prune_scheduled_keys(scheduled_keys, now)
          /\ jobs' = jobs \cup
               {[id |-> JobId(ev.id, lead), run_at |-> ev.start_dt - Minutes(lead)] :
                  <<ev, lead>> \in {p \in AllItems \X LeadSet :
                                      ScheduledKey(p[1].id, p[2]) \in lastPass'.added}}]_vars

\* an event that starts at T was given its two jobs by a pass at T - 45 min;
\* a pass at T - 15 min registered nothing and the T - 5 min job is still
\* pending, registered once
C17_Witness ==
  \E e \in DOMAIN cal :
    /\ cal[e].start_dt = StartOffset
    /\ now = StartOffset - Minutes(15)
    /\ lastPass.ran /\ lastPass.added = {} /\ lastPass.failed = {}
    /\ ScheduledKey(e, 5) \in lastPass.dup
    /\ ScheduledKey(e, 30) \in lastPass.skipped
    /\ {ScheduledKey(e, 30), ScheduledKey(e, 5)} \subseteq DOMAIN scheduled_keys
    /\ scheduled_keys[ScheduledKey(e, 30)] = StartOffset - Minutes(30)
    /\ scheduled_keys[ScheduledKey(e, 5)] = StartOffset - Minutes(5)
    /\ [id |-> JobId(e, 5), run_at |-> StartOffset - Minutes(5)] \in jobs
    /\ regCount[ScheduledKey(e, 5)] = 1

(***************************************************************************)
(* The main loop's heartbeat and its ways out                               *)
(***************************************************************************)
\* a step of the session thread that ends a loop iteration
IterationEnds == pc # "top" /\ pc' = "top"

\* C18 as stated: every iteration of the main loop calls beat() exactly once,
\* whichever branch it takes.
C18_Original == [][IterationEnds => beats' = 1]_vars

\* C18: every iteration of the main loop calls beat() at its top, and every
\* iteration that listens calls it once more when the listen returns: two
\* calls in an iteration that listens, whatever was heard and however the
\* handler ended, one in an iteration that takes the sleep-requested skip,
\* and never more than two.
C18_Amended ==
  [][/\ IterationEnds => beats' = (IF pc = "skip" THEN 1 ELSE 2)
     /\ beats' <= 2
     /\ (pc = "top" /\ pc' = "reset") => beats' = 1
     /\ (pc' \in {"idle_sleepcheck", "active_sleepcheck", "exit_speak"} /\ pc' # pc)
          => beats' = 2]_vars

\* an iteration whose handler failed has ended after two beats
C18_Witness == pc = "top" /\ beats = 2 /\ apologies = 1 /\ intent # None

\* C19: the main loop ends the process only on an "exit" utterance or on an
\* external termination signal; no failure of a handler, of a collaborator or
\* of a special command, and no other step of the loop, ends it.
C19_OnlyExitOrSignal ==
  [][(pc \notin {"exited", "crashed"} /\ pc' \in {"exited", "crashed"})
       => /\ pc' = "exited"
          /\ \/ (pc = "exit_speak" /\ check_sleep_mode(heard) = "exit")
             \/ stop_signal]_vars

(***************************************************************************)
(* The shared module globals of scheduler_jobs and the threads that use     *)
(* them: a worker of the job runner in daily_brief_job, the session thread  *)
(* in handle_schedule_today                                                 *)
(***************************************************************************)
\* how many times each thread enters scheduler_jobs
MaxCalls == 2

\* thread t touches the module global v; `held` tells whether t holds
\* _scheduled_lock at that moment
Access(t, v, op) == [thread |-> t, var |-> v, op |-> op, held |-> (lock = t)]

\* what the thread steps below leave alone
ThreadFrame == UNCHANGED <<now, cal, sched, edits, ran_now, lastPlan, runVars, askVars,
                           audioVars, wdVars, sessVars>>
PlanFrame == UNCHANGED <<schedules, next_id, lastUpsert>>
PassFrame == UNCHANGED <<scheduled_keys, jobs, regCount, insertedAt, lastPass, passes>>

\* the job runner fires daily_brief_job on one of its workers
\* (scheduler_jobs.py:444-449) and poll_and_schedule on another
\* (scheduler_jobs.py:436-440); the session thread enters
\* handle_schedule_today (agent.py:595-599)
thread_call(t) ==
  /\ tpc[t] = "idle"
  /\ tlocal[t].calls < MaxCalls
  /\ t # "session" => sched = "running"
  /\ tpc' = [tpc EXCEPT ![t] = IF t = "runner" THEN "rebuild_fetch" ELSE "ensure_date"]
  /\ tlocal' = [tlocal EXCEPT ![t] = [NoLocals EXCEPT !.calls = tlocal[t].calls + 1]]
  /\ UNCHANGED <<lock, accesses, day_plan, day_plan_date, returned>>
  /\ PlanFrame /\ PassFrame /\ ThreadFrame

\* scheduler_jobs.py:207  if _day_plan_date != today_str
ensure_date(t) ==
  /\ tpc[t] = "ensure_date"
  /\ accesses' = accesses \cup {Access(t, "_day_plan_date", "read")}
  /\ tlocal' = [tlocal EXCEPT ![t].seen = day_plan_date]
  /\ tpc' = [tpc EXCEPT ![t] = IF day_plan_date # DateOf(now)
                                 THEN "rebuild_fetch" ELSE "ensure_return"]
  /\ UNCHANGED <<lock, day_plan, day_plan_date, returned>>
  /\ PlanFrame /\ PassFrame /\ ThreadFrame

\* scheduler_jobs.py:176-196  the two listings, the mirroring and the sort,
\* all on the thread's own list; the collaborators answer
rebuild_fetch(t) ==
  /\ tpc[t] = "rebuild_fetch"
  /\ \E evs \in list_today_events(TRUE) :
       \E los \in list_local_schedules(schedules, TRUE) :
           LET r == rebuild_day_plan(USER_ID, evs, los, {})
           IN /\ tlocal' = [tlocal EXCEPT ![t].items = r.items, ![t].today = r.date]
              /\ schedules' = r.db.rows
              /\ next_id' = r.db.next_id
              /\ lastUpsert' = r.db.last
  /\ tpc' = [tpc EXCEPT ![t] = "rebuild_plan"]
  /\ UNCHANGED <<lock, accesses, day_plan, day_plan_date, returned>>
  /\ PassFrame /\ ThreadFrame

\* scheduler_jobs.py:197  _day_plan = items
rebuild_plan(t) ==
  /\ tpc[t] = "rebuild_plan"
  /\ accesses' = accesses \cup {Access(t, "_day_plan", "write")}
  /\ day_plan' = tlocal[t].items
  /\ tpc' = [tpc EXCEPT ![t] = "rebuild_date"]
  /\ UNCHANGED <<lock, tlocal, day_plan_date, returned>>
  /\ PlanFrame /\ PassFrame /\ ThreadFrame

\* scheduler_jobs.py:198  _day_plan_date = today_str; the session thread goes
\* on to the return of _ensure_day_plan, the runner's worker to the pass
rebuild_date(t) ==
  /\ tpc[t] = "rebuild_date"
  /\ accesses' = accesses \cup {Access(t, "_day_plan_date", "write")}
  /\ day_plan_date' = tlocal[t].today
  /\ tpc' = [tpc EXCEPT ![t] = IF t = "runner" THEN "pass_list" ELSE "ensure_return"]
  /\ UNCHANGED <<lock, tlocal, day_plan, returned>>
  /\ PlanFrame /\ PassFrame /\ ThreadFrame

\* scheduler_jobs.py:210  return _day_plan; poll_and_schedule goes on to the pass
ensure_return(t) ==
  /\ tpc[t] = "ensure_return"
  /\ accesses' = accesses \cup {Access(t, "_day_plan", "read")}
  /\ returned' = day_plan
  /\ tpc' = [tpc EXCEPT ![t] = IF t = "poller" THEN "pass_list" ELSE "idle"]
  /\ UNCHANGED <<lock, tlocal, day_plan, day_plan_date>>
  /\ PlanFrame /\ PassFrame /\ ThreadFrame

\* the n-th (ev, lead) pair of the loops  for ev in items: for lead in leads_min
PairEv(work, n) == work[((n - 1) \div Len(leads)) + 1]
PairLead(n) == leads[((n - 1) % Len(leads)) + 1]
PairCount(work) == Len(work) * Len(leads)

\* scheduler_jobs.py:373-380: the pair has an id and its run time is ahead
PairDue(work, n, at) ==
  /\ PairEv(work, n).id # ""
  /\ ~PastDue(RunAt(PairEv(work, n).start_dt, PairLead(n)), at)

\* the first pair from the n-th on that reaches the `with` block, or
\* PairCount + 1 when the loops run out
NextPair(work, n, at) ==
  LET c == {m \in n..PairCount(work) : PairDue(work, m, at)}
  IN IF c = {} THEN PairCount(work) + 1 ELSE CHOOSE m \in c : \A x \in c : m <= x

\* where thread t stands once the loops have moved on to pair n
PcAt(t, n) == IF n > PairCount(tlocal[t].work) THEN "idle" ELSE "pass_acquire"

\* the key, the run time and the job id of the pair thread t is working on
KeyOf(t) == ScheduledKey(PairEv(tlocal[t].work, tlocal[t].n).id, PairLead(tlocal[t].n))
RunAtOf(t) == RunAt(PairEv(tlocal[t].work, tlocal[t].n).start_dt, PairLead(tlocal[t].n))
JobIdOf(t) == JobId(PairEv(tlocal[t].work, tlocal[t].n).id, PairLead(tlocal[t].n))

\* scheduler_jobs.py:360-371  the two listings and the clock, read before the loops
pass_list(t) ==
  /\ tpc[t] = "pass_list"
  /\ \E ue \in list_upcoming_events(TRUE) :
       \E ul \in list_upcoming_schedules(schedules, USER_ID, TRUE) :
         LET m == NextPair(ue \o ul, 1, now)
         IN /\ tlocal' = [tlocal EXCEPT ![t].work = ue \o ul, ![t].at = now, ![t].n = m]
            /\ tpc' = [tpc EXCEPT ![t] = IF m > PairCount(ue \o ul) THEN "idle"
                                          ELSE "pass_acquire"]
  /\ accesses' = accesses \cup {Access(t, "_list_upcoming_events", "call"),
                                Access(t, "_list_upcoming_schedules", "call")}
  /\ UNCHANGED <<lock, day_plan, day_plan_date, returned>>
  /\ PlanFrame /\ PassFrame /\ ThreadFrame

\* a `with` block entered without waiting for the lock
pass_acquire_unlocked(t) ==
  /\ tpc[t] = "pass_acquire"
  /\ lock' = t
  /\ tpc' = [tpc EXCEPT ![t] = "pass_check"]
  /\ UNCHANGED <<accesses, tlocal, day_plan, day_plan_date, returned>>
  /\ PlanFrame /\ PassFrame /\ ThreadFrame

\* scheduler_jobs.py:382  with _scheduled_lock:
pass_acquire(t) ==
  /\ tpc[t] = "pass_acquire"
  /\ lock = None
  /\ lock' = t
  /\ tpc' = [tpc EXCEPT ![t] = "pass_check"]
  /\ UNCHANGED <<accesses, tlocal, day_plan, day_plan_date, returned>>
  /\ PlanFrame /\ PassFrame /\ ThreadFrame

\* scheduler_jobs.py:383-385  _prune_scheduled_keys(now_ts) and the lookup of
\* the key; `continue` leaves the `with` block and releases the lock
pass_check(t) ==
  /\ tpc[t] = "pass_check"
  /\ LET kept == prune_scheduled_keys(scheduled_keys, tlocal[t].at)
         m    == NextPair(tlocal[t].work, tlocal[t].n + 1, tlocal[t].at)
     IN /\ scheduled_keys' = kept
        /\ IF AlreadyScheduled(kept, KeyOf(t))
             THEN /\ lock' = None
                  /\ tlocal' = [tlocal EXCEPT ![t].lost = @ \cup {KeyOf(t)}, ![t].n = m]
                  /\ tpc' = [tpc EXCEPT ![t] = PcAt(t, m)]
             ELSE /\ UNCHANGED <<lock, tlocal>>
                  /\ tpc' = [tpc EXCEPT ![t] = "pass_insert"]
  /\ accesses' = accesses \cup {Access(t, "_scheduled_keys", "read"),
                                Access(t, "_scheduled_keys", "write")}
  /\ UNCHANGED <<jobs, regCount, insertedAt, lastPass, passes,
                 day_plan, day_plan_date, returned>>
  /\ PlanFrame /\ ThreadFrame

\* an insertion that calls add_job before it leaves the `with` block
pass_insert_and_add(t) ==
  /\ tpc[t] = "pass_insert"
  /\ scheduled_keys' = Put(scheduled_keys, KeyOf(t), RunAtOf(t))
  /\ insertedAt' = Put(insertedAt, KeyOf(t), tlocal[t].at)
  /\ jobs' = jobs \cup {[id |-> JobIdOf(t), run_at |-> RunAtOf(t)]}
  /\ regCount' = Put(regCount, KeyOf(t), GetOr0(regCount, KeyOf(t)) + 1)
  /\ accesses' = accesses \cup {Access(t, "_scheduled_keys", "write"),
                                Access(t, "add_job", "call")}
  /\ lock' = None
  /\ LET m == NextPair(tlocal[t].work, tlocal[t].n + 1, tlocal[t].at)
     IN /\ tlocal' = [tlocal EXCEPT ![t].won = @ \cup {KeyOf(t)}, ![t].n = m]
        /\ tpc' = [tpc EXCEPT ![t] = PcAt(t, m)]
  /\ UNCHANGED <<lastPass, passes, day_plan, day_plan_date, returned>>
  /\ PlanFrame /\ ThreadFrame

\* scheduler_jobs.py:386-390  _scheduled_keys[key] = run_at_ts, the last
\* statement of the `with` block
pass_insert(t) ==
  /\ tpc[t] = "pass_insert"
  /\ scheduled_keys' = Put(scheduled_keys, KeyOf(t), RunAtOf(t))
  /\ insertedAt' = Put(insertedAt, KeyOf(t), tlocal[t].at)
  /\ accesses' = accesses \cup {Access(t, "_scheduled_keys", "write")}
  /\ lock' = None
  /\ tlocal' = [tlocal EXCEPT ![t].won = @ \cup {KeyOf(t)}]
  /\ tpc' = [tpc EXCEPT ![t] = "pass_add_job"]
  /\ UNCHANGED <<jobs, regCount, lastPass, passes, day_plan, day_plan_date, returned>>
  /\ PlanFrame /\ ThreadFrame

\* scheduler_jobs.py:392-398  sched.add_job(_job, "date", run_date=run_at, ...)
\* after the `with` block; the loops go on
pass_add_job(t) ==
  /\ tpc[t] = "pass_add_job"
  /\ jobs' = jobs \cup {[id |-> JobIdOf(t), run_at |-> RunAtOf(t)]}
  /\ regCount' = Put(regCount, KeyOf(t), GetOr0(regCount, KeyOf(t)) + 1)
  /\ accesses' = accesses \cup {Access(t, "add_job", "call")}
  /\ LET m == NextPair(tlocal[t].work, tlocal[t].n + 1, tlocal[t].at)
     IN /\ tlocal' = [tlocal EXCEPT ![t].n = m]
        /\ tpc' = [tpc EXCEPT ![t] = PcAt(t, m)]
  /\ UNCHANGED <<lock, scheduled_keys, insertedAt, lastPass, passes,
                 day_plan, day_plan_date, returned>>
  /\ PlanFrame /\ ThreadFrame

\* the steps a thread takes inside scheduler_jobs
ThreadStep(t) ==
  \/ thread_call(t)
  \/ ensure_date(t)
  \/ rebuild_fetch(t)
  \/ rebuild_plan(t)
  \/ rebuild_date(t)
  \/ ensure_return(t)
  \/ pass_list(t)
  \/ pass_acquire(t)
  \/ pass_check(t)
  \/ pass_insert(t)
  \/ pass_add_job(t)

\* the two threads inside scheduler_jobs while the calendar changes
NextLocking ==
  \/ start_recurring
  \/ calendar_rename
  \/ \E t \in {"runner", "session"} : ThreadStep(t)

SpecLocking == InitReminders /\ [][NextLocking]_vars

\* C20: every read and every write of _day_plan, of _day_plan_date and of
\* _scheduled_keys, by a job-runner thread or by the session thread, is made
\* while the thread holds the one shared lock.
C20_SharedStateUnderLock == \A a \in accesses : a.op # "call" => a.held

MaxAgenda == 3

\* the calendars of up to MaxAgenda events of today, each starting at a time
\* of its own
Agendas ==
  UNION {{[e \in {"ev" \o ToString(i) : i \in 1..n} |->
             LET i == CHOOSE k \in 1..n : "ev" \o ToString(k) = e
             IN [summary |-> s[i], start_dt |-> Minutes(5) + i]] :
            s \in [1..n -> Titles]} : n \in 0..MaxAgenda}

\* the reminders the schedules table may hold at start-up
BriefRows ==
  {[id |-> 1, user_id |-> USER_ID, item |-> "Pills", due_dt |-> Minutes(30),
    note |-> NoNote],
   [id |-> 2, user_id |-> USER_ID, item |-> "Gym", due_dt |-> Minutes(50),
    note |-> NoNote]}

InitBrief ==
  /\ SessionInit
  /\ WatchdogInit(0, 240, 30, TRUE)
  /\ \E c \in Agendas : \E rows \in SUBSET BriefRows : SchedBoot(c, rows, 3)

\* the job runner with its daily job, over calendars of every size
NextBrief ==
  \/ ClockAdvance
  \/ start_recurring
  \/ daily_brief_job

SpecBrief == InitBrief /\ [][NextBrief]_vars

\* the daily job has just run
BriefStep == "daily_brief" \in ran_now' /\ "daily_brief" \notin ran_now

\* C22: the morning brief speaks the first min(5, n) items of the n-item
\* agenda in agenda order, followed by the count n - 5 of the remaining items
\* when n > 5 and by no count when n <= 5; for an empty agenda it announces
\* that there are no scheduled items.
C22_MorningBrief ==
  [][BriefStep =>
       LET plan == day_plan'
           n    == Len(plan)
           said == brief_said'
       IN /\ n = 0 => said.kind = "none"
          /\ n > 0 =>
               /\ said.kind = "schedule"
               /\ Len(said.parts) = (IF n < 5 THEN n ELSE 5)
               /\ \A i \in 1..Len(said.parts) :
                    said.parts[i] = [when |-> plan[i].start_dt,
                                     summary |-> plan[i].summary]
               /\ (n > 5 => said.more = <<n - 5>>)
               /\ (n <= 5 => said.more = << >>)]_vars

\* a brief over a plan of more than five items has been spoken
C22_Witness ==
  /\ brief_said.kind = "schedule"
  /\ Len(brief_said.parts) = 5
  /\ brief_said.more # << >>


(***************************************************************************)
(* The microphone and the speaker                                           *)
(***************************************************************************)
\* what the audio steps below leave alone
AudioFrame ==
  UNCHANGED <<now, cal, schedules, next_id, scheduled_keys, jobs, sched, edits,
              ran_now, day_plan, day_plan_date, returned, regCount, insertedAt,
              lastPass, passes, lastUpsert, lastPlan, runVars, askVars,
              lock, tpc, tlocal, accesses, wdVars, sessVars>>

\* speech_io.record_to_wav (speech_io.py:191): the recording of listen_once
\* (app.py:167-184) starts once the session thread has _audio_lock
record_begin ==
  /\ audio["session"] = "none"
  /\ audio_lock = None
  /\ audio_lock' = "session"
  /\ audio' = [audio EXCEPT !["session"] = "listen"]
  /\ AudioFrame

\* the recording is over and the `with _audio_lock` block is left
record_end ==
  /\ audio["session"] = "listen"
  /\ audio_lock' = None
  /\ audio' = [audio EXCEPT !["session"] = "none"]
  /\ AudioFrame

\* speech_io.speak (speech_io.py:314-345) on the session thread: the text is
\* spoken with _audio_lock held
speak_begin ==
  /\ audio["session"] = "none"
  /\ ~sleep_requested
  /\ audio_lock = None
  /\ audio_lock' = "session"
  /\ audio' = [audio EXCEPT !["session"] = "speak"]
  /\ AudioFrame

speak_end ==
  /\ audio["session"] = "speak"
  /\ audio_lock' = None
  /\ audio' = [audio EXCEPT !["session"] = "none"]
  /\ AudioFrame

\* scheduler_jobs._speak (scheduler_jobs.py:31-63) on a worker of the job
\* runner, for a reminder or a recurring prompt: `say` is run at once, the
\* function takes no lock
job_speak_begin ==
  /\ sched = "running"
  /\ audio["runner"] = "none"
  /\ audio' = [audio EXCEPT !["runner"] = "speak"]
  /\ UNCHANGED audio_lock
  /\ AudioFrame

job_speak_end ==
  /\ audio["runner"] = "speak"
  /\ audio' = [audio EXCEPT !["runner"] = "none"]
  /\ UNCHANGED audio_lock
  /\ AudioFrame

\* the session listening and speaking while the job runner fires its jobs
NextAudio ==
  \/ ClockAdvance
  \/ start_recurring
  \/ record_begin
  \/ record_end
  \/ speak_begin
  \/ speak_end
  \/ job_speak_begin
  \/ job_speak_end

SpecAudio == InitReminders /\ [][NextAudio]_vars

\* C23: no two user-facing operations overlap: while the session thread is
\* inside a listen or a spoken output, no spoken output of a job-runner thread
\* is in progress.
C23_NoOverlap == ~(audio["session"] # "none" /\ audio["runner"] # "none")


\* the step that settles how an Idle tick ends: the sleep check answers, the
\* direct dispatch is over, or the wake test has been made
IdleTickEnds ==
  /\ SessionStep
  /\ \/ pc = "idle_sleepcheck" /\ pc' \in {"sleep_speak", "exit_speak"}
     \/ pc = "idle_music_prompt"
     \/ pc = "idle_wake"

\* C24 as stated: in Idle, after the bounded listen, the session becomes
\* Active whenever the transcript contains a wake cue, other words or not, and
\* remains Idle whenever it contains none.
C24_Original ==
  [][IdleTickEnds => (conversation_active' <=> (heard \cap WAKE_WORDS # {}))]_vars

\* C24 amended: a transcript with an exit or a sleep phrase never makes the
\* session Active, wake cue or not; a transcript dispatched as a playback
\* control leaves the session Active only after a pause or once playback has
\* ended; any other transcript makes the session Active exactly when it
\* contains a wake cue, other words or not.
C24_Amended ==
  [][/\ (pc = "idle_sleepcheck" /\ SessionStep /\ check_sleep_mode(heard) # "none")
          => (~conversation_active' /\ pc' \in {"sleep_speak", "exit_speak"})
     /\ (pc = "idle_music_prompt" /\ SessionStep /\ conversation_active')
          => (intent = "spotify_pause" \/ ~playback)
     /\ (pc = "idle_wake" /\ SessionStep)
          => /\ check_sleep_mode(heard) = "none"
             /\ conversation_active' <=> (heard \cap WAKE_WORDS # {})
             /\ pc' = (IF heard \cap WAKE_WORDS # {} THEN "greet" ELSE "top")]_vars

\* a wake cue heard among other words has made the session Active
C24_Witness ==
  /\ pc = "greet"
  /\ conversation_active
  /\ heard \cap WAKE_WORDS # {}
  /\ Cardinality(heard) > 1


\* C25: on each Idle tick the loop first checks the sleep-request flag and,
\* if it is set, clears it and remains Idle for that tick without listening
\* for or acting on a wake cue.
C25_SleepRequestSkipsTick ==
  [][/\ (pc = "reset" /\ SessionStep /\ ~conversation_active /\ sleep_requested)
          => ~sleep_requested'
     /\ (pc \in {"idle_listen", "idle_wake"} /\ SessionStep) => ~sleep_seen]_vars


\* C26: in Idle with playback active, a transcript classified as a playback
\* control intent is dispatched without a wake transition: the dispatch does
\* not set conversation_active to true and the session is Idle afterwards.
C26_DispatchWithoutWake ==
  [][/\ (pc = "idle_music" /\ pc' = "idle_music_action") => ~conversation_active'
     /\ (pc = "idle_music_prompt" /\ pc' = "top") => ~conversation_active']_vars


\* where the main loop stands between a test of the session fields and the
\* act that depends on it: after the test of app.py:313 and before the branch
\* of app.py:323, and between set_sleep_requested(True) and speak(response)
\* in check_sleep_mode (app.py:293-295)
LoopMidUpdate == pc \in {"skip", "branch", "sleep_speak"}

\* C27: conversation_active and the sleep flag are read and written under one
\* mutex by the main loop and by the stall callback, so the callback's reset
\* never lands in the middle of a main-loop update: while the loop is between
\* a test of the fields and the act that depends on it, only the loop itself
\* changes them.
C27_FieldsUnderMutex ==
  [][(/\ LoopMidUpdate
      /\ \/ conversation_active' # conversation_active
         \/ sleep_requested' # sleep_requested) => SessionStep]_vars


(***************************************************************************)
(* Concurrent scheduling passes                                             *)
(***************************************************************************)
\* daily_brief_job and poll_and_schedule on two workers of the job runner
NextPassLock ==
  \/ start_recurring
  \/ \E t \in {"runner", "poller"} : ThreadStep(t)

SpecPassLock == InitReminders /\ [][NextPassLock]_vars

\* C28: the shared scheduling lock is held only for the prune / key-check /
\* key-insert step: no collaborator (the calendar query, the local-store
\* query, add_job) is called while it is held.
C28_LockOnlyAroundKeys ==
  /\ \A a \in accesses : a.op = "call" => ~a.held
  /\ \A t \in Threads : lock = t => tpc[t] \in {"pass_check", "pass_insert"}

\* a pass has listed the items, taken the lock for a key it found absent, and
\* handed the job to the runner
C28_Witness ==
  \E t \in Threads :
    /\ tlocal[t].won # {}
    /\ tlocal[t].won \subseteq DOMAIN scheduled_keys
    /\ [thread |-> t, var |-> "_scheduled_keys", op |-> "write", held |-> TRUE] \in accesses
    /\ [thread |-> t, var |-> "add_job", op |-> "call", held |-> FALSE] \in accesses
    /\ [thread |-> t, var |-> "_list_upcoming_events", op |-> "call", held |-> FALSE]
         \in accesses

\* C29: when two scheduling passes run at the same time on different threads
\* over the same items, at most one of them finds a key absent and registers
\* a job for it: the prune, the lookup and the insertion of one pass are never
\* interleaved with those of the other.
C29_OneWinnerPerKey ==
  /\ Cardinality({t \in Threads : tpc[t] \in {"pass_check", "pass_insert"}}) <= 1
  /\ \A t1, t2 \in Threads : t1 # t2 => tlocal[t1].won \cap tlocal[t2].won = {}
  /\ \A k \in DOMAIN regCount : regCount[k] <= 1

\* one pass has inserted a key and not yet registered the job, and the other
\* pass, running at the same time, has already found that key present
C29_Witness ==
  \E t1, t2 \in Threads :
    /\ t1 # t2
    /\ tpc[t1] = "pass_add_job"
    /\ KeyOf(t1) \in tlocal[t2].lost
    /\ tpc[t2] # "idle"


\* C30: a key is recorded in the dedup cache only for a job actually
\* registered: every key of the cache whose run time is still ahead has its
\* job pending on the runner, so a reminder whose registration failed remains
\* schedulable by a later pass.
C30_CachedKeyHasJob ==
  \A ev \in AllItems, lead \in LeadSet :
    (/\ ScheduledKey(ev.id, lead) \in DOMAIN scheduled_keys
     /\ scheduled_keys[ScheduledKey(ev.id, lead)] > now)
      => \E j \in jobs : j.id = JobId(ev.id, lead)


(***************************************************************************)
(* Concurrent upserts into the schedules table                              *)
(***************************************************************************)
\* a thread enters db.upsert_schedule_from_calendar for a calendar event, as
\* _rebuild_day_plan does on a job-runner worker (scheduler_jobs.py:189) and
\* create_event does on the session thread (google_calendar.py:215); each
\* call opens a connection of its own (db.py:205)
upsert_begin(t) ==
  /\ tpc[t] = "idle"
  /\ tlocal[t].calls < MaxCalls
  /\ \E e \in DOMAIN cal :
       tlocal' = [tlocal EXCEPT ![t] =
                    [NoLocals EXCEPT !.calls = tlocal[t].calls + 1,
                                     !.work = <<[id |-> e, summary |-> cal[e].summary,
                                                 start_dt |-> cal[e].start_dt]>>]]
  /\ tpc' = [tpc EXCEPT ![t] = "upsert_select"]
  /\ UNCHANGED <<lock, accesses, day_plan, day_plan_date, returned>>
  /\ PlanFrame /\ PassFrame /\ ThreadFrame

\* db.py:208-210  SELECT id ... LIMIT 1; row = cur.fetchone()
upsert_select(t) ==
  /\ tpc[t] = "upsert_select"
  /\ LET ev == tlocal[t].work[1]
         matching == {r \in schedules : UpsertMatch(r, USER_ID, ev.start_dt, ev.id)}
     IN tlocal' = [tlocal EXCEPT ![t].hit =
                     IF matching = {} THEN 0
                     ELSE (CHOOSE r \in matching : \A q \in matching : r.id <= q.id).id]
  /\ tpc' = [tpc EXCEPT ![t] = "upsert_write"]
  /\ UNCHANGED <<lock, accesses, day_plan, day_plan_date, returned>>
  /\ PlanFrame /\ PassFrame /\ ThreadFrame

\* db.py:211-218  UPDATE the row found, or INSERT a new one; commit
upsert_write(t) ==
  /\ tpc[t] = "upsert_write"
  /\ LET ev == tlocal[t].work[1]
     IN IF tlocal[t].hit # 0
          THEN /\ schedules' = {IF r.id = tlocal[t].hit
                                  THEN [r EXCEPT !.item = ev.summary,
                                                 !.note = CalendarNote(ev.id)]
                                  ELSE r : r \in schedules}
               /\ UNCHANGED next_id
          ELSE /\ schedules' = schedules \cup
                                 {[id |-> next_id, user_id |-> USER_ID,
                                   item |-> ev.summary, due_dt |-> ev.start_dt,
                                   note |-> CalendarNote(ev.id)]}
               /\ next_id' = next_id + 1
  /\ tpc' = [tpc EXCEPT ![t] = "idle"]
  /\ UNCHANGED <<lastUpsert, lock, accesses, tlocal, day_plan, day_plan_date, returned>>
  /\ PassFrame /\ ThreadFrame

\* a rebuild on a job-runner worker and an event creation on the session
\* thread mirroring the calendar at the same time
NextUpsert ==
  \/ calendar_rename
  \/ \E t \in {"runner", "session"} :
       \/ upsert_begin(t)
       \/ upsert_select(t)
       \/ upsert_write(t)

SpecUpsert == InitReminders /\ [][NextUpsert]_vars

\* C31: when two threads run upsert_schedule_from_calendar at the same time
\* for the same (user, source id, due time), the table holds one row for that
\* key under every interleaving of their select and insert / update steps.
C31_OneRowPerKey ==
  \A e \in DOMAIN cal :
    Cardinality(MirrorRows(schedules, USER_ID, e, cal[e].start_dt)) <= 1


(***************************************************************************)
(* A rebuild whose mirroring fails for one calendar item                    *)
(***************************************************************************)
\* _rebuild_day_plan as handle_calrem_refresh calls it (agent.py:663-681),
\* with the upsert of one calendar item raising (scheduler_jobs.py:188-191)
rebuild_upsert_fails ==
  /\ \E evs \in list_today_events(TRUE) :
       \E los \in list_local_schedules(schedules, TRUE) :
         \E i \in DOMAIN evs :
           PublishPlan(rebuild_day_plan(USER_ID, evs, los, {i}), {})
  /\ UNCHANGED <<now, cal, scheduled_keys, jobs, sched, edits, ran_now,
                 regCount, insertedAt, lastPass, passes, runVars, askVars, lockVars,
                 wdVars, sessVars>>

\* at start-up the calendar holds up to MaxAgenda events of today and the
\* schedules table one reminder of the owner
InitMirror ==
  /\ SessionInit
  /\ WatchdogInit(0, 240, 30, TRUE)
  /\ \E c \in Agendas :
       SchedBoot(c, {[id |-> 1, user_id |-> USER_ID, item |-> "Pills",
                      due_dt |-> Minutes(30), note |-> NoNote]}, 2)

\* rebuilds over calendars of every size while the calendar changes
NextMirror ==
  \/ calendar_rename
  \/ handle_calrem_refresh
  \/ rebuild_upsert_fails

SpecMirror == InitMirror /\ [][NextMirror]_vars

\* the calendar's events of today
TodayEvents == {e \in DOMAIN cal : DateOf(cal[e].start_dt) = DateOf(now)}

\* C32: during a rebuild a failure to mirror one calendar item is absorbed
\* per item: the other calendar items are still upserted, and the agenda is
\* still sorted, cached with today's date and returned with every queried
\* item in it.
C32_MirrorFailureAbsorbed ==
  [][rebuild_upsert_fails
       => /\ \A e \in TodayEvents \ lastPlan'.skipped :
               \E r \in schedules' :
                 /\ UpsertMatch(r, USER_ID, cal[e].start_dt, e)
                 /\ r.item = cal[e].summary
          /\ IsSortedByStart(day_plan')
          /\ day_plan_date' = DateOf(now)
          /\ returned' = day_plan'
          /\ {day_plan'[i].id : i \in DOMAIN day_plan'}
               = TodayEvents
                   \cup {"sch_" \o ToString(r.id) :
                           r \in {x \in schedules : DateOf(x.due_dt) = DateOf(now)}}
          /\ Len(day_plan')
               = Cardinality(TodayEvents)
                   + Cardinality({x \in schedules : DateOf(x.due_dt) = DateOf(now)})]_vars

\* a rebuild skipped the item whose upsert raised and mirrored a later one
\* that had no row yet
C32_Witness ==
  /\ lastPlan.skipped # {}
  /\ lastPlan.failed = {}
  /\ \E e \in TodayEvents \ lastPlan.skipped :
       /\ \E s \in lastPlan.skipped : cal[s].start_dt < cal[e].start_dt
       /\ lastUpsert.kind = "insert"
       /\ Cardinality(MirrorRows(schedules, USER_ID, e, cal[e].start_dt)) = 1


(***************************************************************************)
(* Changing the reminder leads (agent.py, scheduler_jobs.py)               *)
(***************************************************************************)
\* the numbers found in what the user said (agent.py:696), none included
LeadRequests == {<< >>, <<10>>, <<15, 5>>}

\* agent.handle_calrem_set_leads (agent.py:693-704): the numbers of the
\* request are stored in the environment and the change is announced
handle_calrem_set_leads ==
  /\ \E nums \in LeadRequests :
       IF nums = << >>
         THEN /\ leads_said' = "please_specify"
              /\ UNCHANGED environ_leads
         ELSE /\ environ_leads' = nums
              /\ leads_said' = "updated_from_next_cycle"
  /\ UNCHANGED <<now, cal, schedules, next_id, scheduled_keys, jobs, sched, edits,
                 ran_now, day_plan, day_plan_date, returned, regCount, insertedAt,
                 lastPass, passes, lastUpsert, lastPlan, sched_gen, deaths, leads,
                 askVars, lockVars, wdVars, sessVars>>

\* the job runner polling while the user changes the leads
NextLeads ==
  \/ ClockAdvance
  \/ start_recurring
  \/ poll_and_schedule
  \/ handle_calrem_set_leads

SpecLeads == InitReminders /\ [][NextLeads]_vars

\* the keys a pass has dealt with
PassKeys(log) == log.added \cup log.dup \cup log.skipped \cup log.failed

\* C33: a pass of the polling job works with the leads that the environment
\* holds when it runs: the pairs it deals with are those of the listed items
\* with the leads last set by the user (the default ones before any change)
C33_PollUsesCurrentLeads ==
  [][("calendar_poll" \in ran_now' /\ "calendar_poll" \notin ran_now)
       => PassKeys(lastPass') =
            {ScheduledKey(ev.id, EnvLeads(environ_leads)[i]) :
               ev \in lastPass'.listed, i \in DOMAIN EnvLeads(environ_leads)}]_vars


\* C34: the agenda built for the owner holds, from the schedules table, only
\* rows of the owner: every local item of the plan is a row whose user_id is
\* the user the plan was built for
C34_OnlyOwnRows ==
  \A i \in DOMAIN day_plan :
    day_plan[i].source = "local"
      => \E r \in schedules : /\ day_plan[i].id = "sch_" \o ToString(r.id)
                              /\ r.user_id = USER_ID


\* the positions of the plan that show the calendar event e: the event itself
\* or a row of the table that mirrors it
PlanEntries(plan, rows, e) ==
  {i \in DOMAIN plan :
     \/ plan[i].id = e
     \/ \E r \in rows : /\ r.note = CalendarNote(e)
                        /\ plan[i].id = "sch_" \o ToString(r.id)}

\* C35: once a calendar event has been mirrored into the table, every later
\* rebuild on the same date shows the event exactly once: the plan does not
\* hold it as a calendar item and again as the local row that mirrors it
C35_MirroredShownOnce ==
  [][((handle_calrem_refresh \/ rebuild_upsert_fails) /\ lastPlan'.failed = {})
       => \A e \in TodayEvents :
            MirrorRows(schedules, USER_ID, e, cal[e].start_dt) # {}
              => Cardinality(PlanEntries(day_plan', schedules', e)) = 1]_vars


\* C36: a calendar event mirrored into the table is scheduled under its
\* calendar id only: for each lead no key and no job carries the id of the
\* row that mirrors it, and the event has at most one job, registered once
C36_MirroredScheduledOnce ==
  \A r \in schedules :
    IsCalendarNote(r.note)
      => \A i \in DOMAIN leads :
           /\ ScheduledKey("sch_" \o ToString(r.id), leads[i]) \notin DOMAIN scheduled_keys
           /\ \A j \in jobs : j.id # JobId("sch_" \o ToString(r.id), leads[i])
           /\ Cardinality({j \in jobs : j.id = JobId(r.note[2], leads[i])}) <= 1
           /\ GetOr0(regCount, ScheduledKey(r.note[2], leads[i])) <= 1

\* a pass has registered the reminder of a mirrored event whose row is upcoming
C36_Witness ==
  \E r \in schedules, i \in DOMAIN leads :
    /\ IsCalendarNote(r.note)
    /\ r.user_id = USER_ID
    /\ now <= r.due_dt
    /\ r.due_dt <= now + Hours(WINDOW_HOURS)
    /\ ScheduledKey(r.note[2], leads[i]) \in lastPass.added
    /\ \E j \in jobs : j.id = JobId(r.note[2], leads[i])
    /\ passes = 0


\* C37: on_stall is invoked only by a monitor tick that finds the latest
\* beat more than timeout ago: a tick within timeout of a beat leaves the
\* callback count and the alert time alone, so beats that are never more than
\* timeout apart keep the callback from firing, and a beat after a stall
\* stops the callbacks until the age exceeds timeout again.
C37_NoStallWithinTimeout ==
  [][/\ stallCalls' # stallCalls
          => MonitorTick /\ wd_on_stall /\ mono - wd_last > wd_timeout
     /\ (MonitorTick /\ mono - wd_last <= wd_timeout)
          => UNCHANGED <<stallCalls, lastStallAt, wd_last_alert, staleSeen>>]_vars

\* after a callback and a beat, a tick within timeout of the beat has passed
\* without a callback
C37_Witness ==
  /\ stallCalls >= 1
  /\ wd_last > lastStallAt
  /\ wd_wake - wd_interval > wd_last
  /\ mono - wd_last <= wd_timeout
  /\ ~staleSeen


\* C38: an exception raised by on_stall does not stop the monitor: the alert
\* time was recorded before the callback ran, the monitor thread stays alive
\* with its next tick one interval ahead, and a tick that finds the heartbeat
\* stale once timeout/2 has passed since the failed invocation reports again.
C38_FailedCallbackAbsorbed ==
  [][/\ (stallCalls' # stallCalls /\ stallRaised')
          => /\ wd_last_alert' = mono
             /\ wd_monitor'
             /\ ~wd_stop'
             /\ wd_wake' = mono + wd_interval
     /\ (MonitorTick /\ stallRaised /\ mono - wd_last > wd_timeout
           /\ 2 * (mono - lastStallAt) >= wd_timeout)
          => stallCalls' = stallCalls + 1 /\ lastStallAt' = mono
     /\ (stallRaised /\ ~wd_stop /\ mono >= wd_wake) => ENABLED monitor_loop]_vars

\* the latest callback raised, the monitor has ticked since, and the next
\* tick, due now, finds the heartbeat stale with the alert window open again
C38_Witness ==
  /\ stallRaised
  /\ stallCalls >= 1
  /\ wd_monitor
  /\ ~wd_stop
  /\ wd_wake - wd_interval > lastStallAt
  /\ mono >= wd_wake
  /\ mono - wd_last > wd_timeout
  /\ 2 * (mono - lastStallAt) >= wd_timeout


\* C39: at every iteration boundary of the main loop 0 <= silent_turns <= 2,
\* and the counter is 0 whenever the session, in Idle, listens for a wake cue
C39_SilentTurnsBounded ==
  /\ pc = "top" => (0 <= silent_turns /\ silent_turns <= SilentLimit - 1)
  /\ pc = "idle_listen" => silent_turns = 0


(***************************************************************************)
(* The cached plan across a change of date                                 *)
(***************************************************************************)
\* the calendar holds an event of today and one of the day after tomorrow,
\* the schedules table a reminder of today
InitPublish ==
  /\ SessionInit
  /\ WatchdogInit(0, 240, 30, TRUE)
  /\ SchedBoot([e \in {"evA", "evB"} |->
                  IF e = "evA"
                    THEN [summary |-> "Standup", start_dt |-> Minutes(20)]
                    ELSE [summary |-> "Review",
                          start_dt |-> Hours(MAX_AGE_HOURS) + Minutes(40)]],
               {[id |-> 1, user_id |-> USER_ID, item |-> "Pills",
                 due_dt |-> Minutes(30), note |-> NoNote]},
               2)

\* a rebuild on a worker of the job runner and _ensure_day_plan readers on
\* the session thread, while time passes
NextPublish ==
  \/ ClockAdvance
  \/ start_recurring
  \/ \E t \in {"runner", "session"} : ThreadStep(t)

SpecPublish == InitPublish /\ [][NextPublish]_vars

\* thread t returns from an _ensure_day_plan that found the cached date equal
\* to today's date and so did not rebuild (scheduler_jobs.py:207, 210)
CachedReturn(t) ==
  /\ tpc[t] = "ensure_return"
  /\ tpc'[t] # "ensure_return"
  /\ tlocal[t].today = NoDate

\* C40: a reader that finds the cached date equal to today's date is never
\* returned the list of a date before: no item of the list it gets starts on
\* a date earlier than the one it saw.
C40_PlanOfCachedDate ==
  [][\A t \in Threads :
       CachedReturn(t)
         => \A i \in DOMAIN returned' :
              DateOf(returned'[i].start_dt) >= tlocal[t].seen]_vars

============================================================================
